---- MODULE Spec2Model ----
(***************************************************************************)
(* A model of the per-node protocol core of the threshold-signing node:    *)
(* the TripleManager (node/src/protocol/triple.rs), the cryptographic      *)
(* driver `progress` (node/src/protocol/cryptography.rs) and the control   *)
(* loop (node/src/protocol/mod.rs).                                        *)
(*                                                                         *)
(* Spec        one TripleManager under any sequence of calls.              *)
(* SpecTake    take_two and take_two_mine applied to any stock of triples. *)
(* SpecQuorum  a quorum of TripleManagers driven as TestManagers drives it.*)
(* SpecNode    one node: the control loop, progress, advance and handle.   *)
(* SpecDriver  progress and handle applied to any state a node can hold.   *)
(* SpecStop    the control loop of a node whose channel can be closed.     *)
(* SpecAdvance advance applied to any state and any contract state.        *)
(* SpecKeygen  a quorum of nodes in Generating, driven to the end.         *)
(* SpecLock    the guards of the state's lock through one turn of run().   *)
(***************************************************************************)
EXTENDS Integers, Sequences, FiniteSets, TLC

VARIABLES
    triples,     \* triples[i]    : TripleManager.triples of node i (id -> Triple)
    generators,  \* generators[i] : TripleManager.generators of node i (id -> protocol)
    mine,        \* mine[i]       : TripleManager.mine of node i (queue of ids)
    panicked,    \* a call panicked (the process is gone)
    ret,         \* the last call on the manager and what it returned
    spent,       \* spent[i]      : ids returned by an earlier successful take_two*
    nGen,        \* number of generate() calls made so far in the quorum
    nTake,       \* number of take_two / take_two_mine calls that removed something
    state,       \* MpcSignProtocol.state: the node's stored NodeState
    channel,     \* the messages put on the channel run() receives from
    queue,       \* the MpcMessageQueue of run()
    outbox,      \* the messages the last tick handed to the http client, in order
    storage,     \* the node's persistent storage (PersistentNodeData or none)
    stopped,     \* run() has returned
    receiver,    \* the channel's sender: "open", or dropped ("closing" while the
                 \* turn under way is past its drain, "closed" otherwise)
    tick,        \* what the last tick did: how it ended and what progress met
    lastEpoch,   \* the epoch of the last stored state that carried one
    peers,       \* peers[i] : node i of a quorum generating a key (its state, its
                 \* protocol instance, its message queue and the requests of its
                 \* last progress call)
    lock         \* the RwLock of MpcSignProtocol.state and where run() stands in
                 \* its turn: the guards the loop holds, those of the other tasks

tmVars == <<triples, generators, mine, panicked, ret, spent, nGen, nTake>>

nodeVars == <<state, channel, queue, outbox, storage, stopped, receiver, tick, lastEpoch,
              peers, lock>>

vars == <<tmVars, nodeVars>>

-----------------------------------------------------------------------------
(* Bounds of the model. *)

\* number of managers in the quorum (TestManagers::new(number))
NumNodes == 2
\* TripleId is a u64 drawn by rand::random(); the model draws from 1..MaxId
MaxId == 2
\* total number of generate() calls in the quorum
MaxGenerate == 4
\* total number of take_two / take_two_mine calls that remove something
MaxTakes == 2
\* the randomness a protocol instance contributes is drawn from 0..MaxEntropy
MaxEntropy == 1
\* the ids of the triples a manager is stocked with are drawn from 1..MaxStock
MaxStock == 3
\* largest epoch of a contract state
MaxEpoch == 2
\* largest private share and largest public key
MaxSecret == 1
\* most Send actions a protocol yields within one progress call
MaxActions == 1
\* most messages waiting on the channel and in the message queue together
MaxQueue == 1

Nodes == 0 .. (NumNodes - 1)
Ids == 1 .. MaxId
Entropy == 0 .. MaxEntropy
Absent == 0 - 1

\* TestManagers::new: participants = (0..number).map(Participant::from), the
\* same ordered list on every manager.  TLA+ sequences start at 1: the Rust
\* participants[k] is participants[k + 1] here.
participants == [k \in 1 .. NumNodes |-> k - 1]

\* TestManagers::new passes epoch 0 to every manager.
epoch == 0

-----------------------------------------------------------------------------
(* HashMap helpers. A HashMap is a function whose DOMAIN is its key set. *)

EmptyMap == [k \in {} |-> 0]

Put(m, k, v) == [x \in (DOMAIN m) \cup {k} |-> IF x = k THEN v ELSE m[x]]

Remove(m, k) == [x \in (DOMAIN m) \ {k} |-> m[x]]

\* all orders in which a HashMap's keys can be visited
Orders(S) == {s \in [1 .. Cardinality(S) -> S] : \A a, b \in 1 .. Cardinality(S) : a # b => s[a] # s[b]}

-----------------------------------------------------------------------------
(* NodeState and its variants (state.rs).  Participants maps are modelled  *)
(* by their key sets, iterated in ascending key order as a BTreeMap is; a  *)
(* participant's AccountInfo is its id.                                    *)

\* Option::None
None == [tag |-> "None"]

\* PersistentNodeData
PersistentNodeData(e, private_share, public_key) ==
    [tag |-> "Some", epoch |-> e, private_share |-> private_share, public_key |-> public_key]

Starting == [tag |-> "Starting"]

StartedState(data) == [tag |-> "Started", data |-> data]

GeneratingState(ps, threshold) ==
    [tag |-> "Generating", participants |-> ps, threshold |-> threshold]

WaitingForConsensusState(e, ps, threshold, private_share, public_key) ==
    [tag |-> "WaitingForConsensus", epoch |-> e, participants |-> ps, threshold |-> threshold,
     private_share |-> private_share, public_key |-> public_key]

\* the triple manager of a Running state is the manager Me of the model
RunningState(e, ps, threshold, private_share, public_key) ==
    [tag |-> "Running", epoch |-> e, participants |-> ps, threshold |-> threshold,
     private_share |-> private_share, public_key |-> public_key]

ResharingState(old_epoch, old_participants, new_participants, threshold, public_key) ==
    [tag |-> "Resharing", old_epoch |-> old_epoch, old_participants |-> old_participants,
     new_participants |-> new_participants, threshold |-> threshold, public_key |-> public_key]

JoiningState(ps, public_key) ==
    [tag |-> "Joining", participants |-> ps, public_key |-> public_key]

\* the keys of a Participants map in the order its iterator yields them
RECURSIVE Ascending(_)
Ascending(ps) ==
    IF ps = {} THEN <<>>
    ELSE LET least == CHOOSE p \in ps : \A q \in ps : p <= q
         IN  <<least>> \o Ascending(ps \ {least})

\* NodeState::find_participant_info(account_id) for the account of
\* participant p: whether the state's rosters hold that account
find_participant_info(st, p) ==
    IF st.tag \in {"Starting", "Started"} THEN FALSE
    ELSE IF st.tag = "Resharing" THEN p \in st.new_participants \/ p \in st.old_participants
    ELSE p \in st.participants

\* the epoch a stored state carries, Absent when it carries none
EpochOf(st) ==
    IF st.tag \in {"WaitingForConsensus", "Running"} THEN st.epoch
    ELSE IF st.tag = "Resharing" THEN st.old_epoch
    ELSE Absent

\* no tick has run
NoTick ==
    [path |-> "none", on |-> "", res |-> "", err |-> "", yielded |-> None, returned |-> None,
     handled |-> <<>>, delivered |-> <<>>, observed |-> None, slept |-> FALSE]

\* no quorum is generating a key
NoPeers == <<>>

\* run() at the top of its loop, no guard of the state's lock taken: `held`
\* are the guards the task of run() holds, `readers` the number of read
\* guards other tasks hold, `back` where a call of ctx.me() returns to
Unlocked == [pc |-> "fetch", back |-> "", held |-> {}, readers |-> 0]

\* the node before run() is called, nothing stored on its disk
NodeIdle ==
    /\ state = Starting
    /\ channel = <<>>
    /\ queue = <<>>
    /\ outbox = <<>>
    /\ storage = None
    /\ stopped = FALSE
    /\ receiver = "open"
    /\ tick = NoTick
    /\ lastEpoch = Absent
    /\ lock = Unlocked
    /\ peers = NoPeers

-----------------------------------------------------------------------------
(* The triple generation protocol of the cait-sith library                 *)
(* (cait_sith::triples::generate_triple), which the manager drives through *)
(* poke() and message().  It is a library outside this repository and is   *)
(* modelled by its contract: a party broadcasts a commitment to its own    *)
(* randomness; once it holds the commitment of every other party it sends  *)
(* each of them, privately, a share bound to the digest of all the         *)
(* commitments it saw; once it holds the share of every other party it     *)
(* fails with a ProtocolError when one of them is bound to another digest  *)
(* than its own, and otherwise returns the triple, whose public part is a  *)
(* function of the agreed commitments.  Of two messages of one kind from   *)
(* one sender the first counts; a message from the party itself is never   *)
(* read.                                                                   *)

\* the other parties, in participants order
RECURSIVE OthersFrom(_, _)
OthersFrom(me, k) ==
    IF k > NumNodes THEN <<>>
    ELSE IF participants[k] = me THEN OthersFrom(me, k + 1)
         ELSE <<participants[k]>> \o OthersFrom(me, k + 1)

Others(me) == OthersFrom(me, 1)

\* a new protocol instance with randomness c
NewProtocol(c) ==
    [c |-> c, pc |-> 0,
     commits |-> [p \in Nodes |-> Absent],
     shares |-> [p \in Nodes |-> Absent]]

\* the digest of the commitments a party holds (its own included)
RECURSIVE Digest(_, _, _)
Digest(g, me, k) ==
    IF k = 0 THEN 0
    ELSE (IF participants[k] = me THEN g.c ELSE g.commits[participants[k]])
         + (MaxEntropy + 1) * Digest(g, me, k - 1)

View(g, me) == Digest(g, me, NumNodes)

\* the output (TripleShare, TriplePub) of a run whose agreed digest is d
TripleOutput(me, d) ==
    [share |-> [party |-> me, of |-> d],
     public |-> [big_a |-> d + 1, big_b |-> d + 2, big_c |-> d]]

\* Protocol::poke(): the next action and the protocol's state after it
ProtocolPoke(g, me) ==
    LET n == Len(Others(me)) IN
    IF g.pc = 0
    THEN [action |-> [type |-> "SendMany", data |-> [kind |-> "commit", v |-> g.c]],
          next |-> [g EXCEPT !.pc = 1]]
    ELSE IF g.pc = 1 /\ \E p \in Nodes \ {me} : g.commits[p] = Absent
    THEN [action |-> [type |-> "Wait"], next |-> g]
    ELSE IF g.pc <= n
    THEN [action |-> [type |-> "SendPrivate", to |-> Others(me)[g.pc],
                      data |-> [kind |-> "share", v |-> View(g, me)]],
          next |-> [g EXCEPT !.pc = g.pc + 1]]
    ELSE IF \E p \in Nodes \ {me} : g.shares[p] = Absent
    THEN [action |-> [type |-> "Wait"], next |-> g]
    ELSE IF \A p \in Nodes \ {me} : g.shares[p] = View(g, me)
    THEN [action |-> [type |-> "Return", output |-> TripleOutput(me, View(g, me))],
          next |-> g]
    ELSE [action |-> [type |-> "Err"], next |-> g]

\* Protocol::message(from, data)
ProtocolMessage(g, me, from, data) ==
    IF from = me THEN g
    ELSE IF data.kind = "commit"
    THEN IF g.commits[from] = Absent THEN [g EXCEPT !.commits[from] = data.v] ELSE g
    ELSE IF g.shares[from] = Absent THEN [g EXCEPT !.shares[from] = data.v] ELSE g

\* the node the model follows (TestManagers: the manager the calls are made on)
Me == participants[1]

\* HighwayHasher::default().hash64(bytes): a fixed function of the bytes, the
\* same on every node (the values of the model stay far below 2^64)
hash64(bytes) == bytes * 31 + 7

-----------------------------------------------------------------------------
(* TripleManager (triple.rs).  A manager is the record                     *)
(* [triples, generators, mine]; participants, threshold and epoch are the  *)
(* same constants on every manager.                                        *)

\* TripleManager::new
NewManager == [triples |-> EmptyMap, generators |-> EmptyMap, mine |-> <<>>]

\* TripleManager::len
len(tm) == Cardinality(DOMAIN tm.triples)

\* TripleManager::my_len
my_len(tm) == Len(tm.mine)

\* TripleManager::potential_len
potential_len(tm) == len(tm) + Cardinality(DOMAIN tm.generators)

\* TripleManager::generate, with id the value rand::random() returned and c
\* the randomness of the new protocol instance
generate(tm, id, c) == [tm EXCEPT !.generators = Put(@, id, NewProtocol(c))]

\* take_two removing id0 before it looks for id1
take_two_eager(tm, id0, id1) ==
    IF id0 \notin DOMAIN tm.triples
    THEN [tm |-> tm, res |-> "Err", err |-> id0, val |-> <<>>]
    ELSE IF id1 \notin DOMAIN tm.triples
    THEN [tm |-> [tm EXCEPT !.triples = Remove(@, id0)], res |-> "Err", err |-> id1, val |-> <<>>]
    ELSE [tm |-> [tm EXCEPT !.triples = Remove(Remove(@, id0), id1)], res |-> "Ok", err |-> 0,
          val |-> <<tm.triples[id0], tm.triples[id1]>>]

\* take_two returning the second triple without removing it
take_two_keeps_second(tm, id0, id1) ==
    IF id0 \notin DOMAIN tm.triples
    THEN [tm |-> tm, res |-> "Err", err |-> id0, val |-> <<>>]
    ELSE IF id1 \notin DOMAIN tm.triples
    THEN [tm |-> tm, res |-> "Err", err |-> id1, val |-> <<>>]
    ELSE [tm |-> [tm EXCEPT !.triples = Remove(@, id0)], res |-> "Ok", err |-> 0,
          val |-> <<tm.triples[id0], tm.triples[id1]>>]

\* TripleManager::take_two
take_two(tm, id0, id1) ==
    IF id0 \notin DOMAIN tm.triples
    THEN [tm |-> tm, res |-> "Err", err |-> id0, val |-> <<>>]
    ELSE IF id1 \notin DOMAIN tm.triples
    THEN [tm |-> tm, res |-> "Err", err |-> id1, val |-> <<>>]
    ELSE LET first == Remove(tm.triples, id0) IN
         IF id1 \notin DOMAIN first
         THEN \* the second remove returns None and unwrap() panics
              [tm |-> [tm EXCEPT !.triples = first], res |-> "panic", err |-> 0, val |-> <<>>]
         ELSE [tm |-> [tm EXCEPT !.triples = Remove(first, id1)], res |-> "Ok", err |-> 0,
               val |-> <<tm.triples[id0], tm.triples[id1]>>]

\* TripleManager::take_two_mine
take_two_mine(tm) ==
    IF Len(tm.mine) < 2
    THEN [tm |-> tm, res |-> "None", err |-> 0, val |-> <<>>, id0 |-> 0, id1 |-> 0]
    ELSE LET id0 == tm.mine[1]
             id1 == tm.mine[2]
             popped == [tm EXCEPT !.mine = SubSeq(@, 3, Len(@))]
             r == take_two(popped, id0, id1)
         IN [tm |-> r.tm, res |-> IF r.res = "Err" THEN "None" ELSE r.res,
             err |-> 0, val |-> r.val, id0 |-> id0, id1 |-> id1]

\* get_or_generate joining without looking at `triples`
get_or_generate_unchecked(tm, id, c) ==
    IF id \notin DOMAIN tm.generators
    THEN [tm |-> [tm EXCEPT !.generators = Put(@, id, NewProtocol(c))], res |-> "Some"]
    ELSE [tm |-> tm, res |-> "Some"]

\* get_or_generate starting a new protocol whenever the id is not completed
get_or_generate_anew(tm, id, c) ==
    IF id \in DOMAIN tm.triples
    THEN [tm |-> tm, res |-> "None"]
    ELSE [tm |-> [tm EXCEPT !.generators = Put(@, id, NewProtocol(c))], res |-> "Some"]

\* TripleManager::get_or_generate, with c the randomness of a protocol instance
\* it may create (generate_triple cannot fail on the manager's fixed, valid
\* participants and threshold)
get_or_generate(tm, id, c) ==
    IF id \in DOMAIN tm.triples
    THEN [tm |-> tm, res |-> "None"]
    ELSE IF id \notin DOMAIN tm.generators
    THEN [tm |-> [tm EXCEPT !.generators = Put(@, id, NewProtocol(c))], res |-> "Some"]
    ELSE [tm |-> tm, res |-> "Some"]

\* the (Participant, TripleMessage) pair poke() pushes
TripleMsg(p, id, me, data) ==
    [to |-> p, msg |-> [id |-> id, epoch |-> epoch, from |-> me, data |-> data]]

\* a SendMany that leaves out the node itself
SentToOthers(id, me, data) ==
    SelectSeq([k \in 1 .. Len(participants) |-> TripleMsg(participants[k], id, me, data)],
              LAMBDA m : m.to # me)

\* the messages poke() pushes on Action::SendMany(data) of generator id: the
\* `for p in &self.participants` loop
SentToMany(id, me, data) ==
    [k \in 1 .. Len(participants) |-> TripleMsg(participants[k], id, me, data)]

\* the loop poke() runs on one generator: poke the protocol until it waits,
\* returns or fails, pushing the messages of its Send actions
RECURSIVE GenLoop(_, _, _, _)
RECURSIVE GenMatch(_, _, _, _, _)
GenLoop(me, id, g, msgs) == GenMatch(me, id, g, msgs, ProtocolPoke(g, me))

\* the `match action` of that loop, r being what protocol.poke() gave
GenMatch(me, id, g, msgs, r) ==
    IF r.action.type = "Err" THEN [end |-> "Err", g |-> g, msgs |-> msgs]
    ELSE IF r.action.type = "Wait" THEN [end |-> "Wait", g |-> r.next, msgs |-> msgs]
    ELSE IF r.action.type = "SendMany"
    THEN GenLoop(me, id, r.next, msgs \o SentToMany(id, me, r.action.data))
    ELSE IF r.action.type = "SendPrivate"
    THEN GenLoop(me, id, r.next,
                 Append(msgs, TripleMsg(r.action.to, id, me, r.action.data)))
    ELSE [end |-> "Return", g |-> r.next, msgs |-> msgs, output |-> r.action.output]

\* the owner computed from a hash that mixes in the node's own id
triple_is_mine_local(public, me) ==
    LET entropy == hash64(public.big_c + me)
        num_participants == Len(participants)
        triple_owner == participants[(entropy % num_participants) + 1]
    IN  triple_owner = me

\* whether the triple with public part `public` is assigned to me
triple_is_mine(public, me) ==
    LET entropy == hash64(public.big_c)
        num_participants == Len(participants)
        triple_owner == participants[(entropy % num_participants) + 1]
    IN  triple_owner = me

\* a closure that keeps a generator whose poke failed
RetainedKeepsFailed(st, me, id, r) ==
    IF r.end \in {"Wait", "Err"}
    THEN [st EXCEPT !.messages = @ \o r.msgs, !.generators[id] = r.g,
                    !.result = IF r.end = "Err" THEN "Err" ELSE @]
    ELSE [st EXCEPT !.messages = @ \o r.msgs, !.generators = Remove(@, id),
                    !.mine = IF triple_is_mine(r.output.public, me)
                             THEN Append(@, id) ELSE @,
                    !.triples = Put(@, id, [id |-> id, share |-> r.output.share,
                                            public |-> r.output.public])]

\* a closure that stores the triple only when the node owns it
RetainedOnlyMine(st, me, id, r) ==
    IF r.end = "Wait"
    THEN [st EXCEPT !.messages = @ \o r.msgs, !.generators[id] = r.g]
    ELSE IF r.end = "Err"
    THEN [st EXCEPT !.messages = @ \o r.msgs, !.generators = Remove(@, id),
                    !.result = "Err"]
    ELSE IF triple_is_mine(r.output.public, me)
    THEN [st EXCEPT !.messages = @ \o r.msgs, !.generators = Remove(@, id),
                    !.mine = Append(@, id),
                    !.triples = Put(@, id, [id |-> id, share |-> r.output.share,
                                            public |-> r.output.public])]
    ELSE [st EXCEPT !.messages = @ \o r.msgs, !.generators = Remove(@, id)]

\* the closure poke() hands to generators.retain, on generator id whose loop
\* ended as r: the messages are pushed, the generator is kept while it waits,
\* dropped with the error when it fails, and replaced by its triple on Return
Retained(st, me, id, r) ==
    IF r.end = "Wait"
    THEN [st EXCEPT !.messages = @ \o r.msgs, !.generators[id] = r.g]
    ELSE IF r.end = "Err"
    THEN [st EXCEPT !.messages = @ \o r.msgs, !.generators = Remove(@, id),
                    !.result = "Err"]
    ELSE [st EXCEPT !.messages = @ \o r.msgs, !.generators = Remove(@, id),
                    !.mine = IF triple_is_mine(r.output.public, me)
                             THEN Append(@, id) ELSE @,
                    !.triples = Put(@, id, [id |-> id, share |-> r.output.share,
                                            public |-> r.output.public])]

\* generators.retain over the generators in the order ord in which the
\* HashMap visits them
RECURSIVE PokeRetain(_, _, _, _)
PokeRetain(st, me, ord, k) ==
    IF k > Len(ord) THEN st
    ELSE PokeRetain(Retained(st, me, ord[k],
                             GenLoop(me, ord[k], st.generators[ord[k]], <<>>)),
                    me, ord, k + 1)

\* a poke() that returns the messages along with the error
PokedWithMessages(st) ==
    [tm |-> [triples |-> st.triples, generators |-> st.generators, mine |-> st.mine],
     res |-> st.result,
     messages |-> st.messages]

\* what poke() returns once retain is over: result.map(|_| messages)
Poked(st) ==
    [tm |-> [triples |-> st.triples, generators |-> st.generators, mine |-> st.mine],
     res |-> st.result,
     messages |-> IF st.result = "Ok" THEN st.messages ELSE <<>>]

\* TripleManager::poke
poke(tm, me, ord) ==
    Poked(PokeRetain([triples |-> tm.triples, generators |-> tm.generators,
                      mine |-> tm.mine, messages |-> <<>>, result |-> "Ok"],
                     me, ord, 1))

-----------------------------------------------------------------------------
(* The quorum (triple.rs, mod test): TestManagers holds one TripleManager  *)
(* per participant; TestManagers::poke(index) pokes one manager and hands  *)
(* every message it returned to the recipient's get_or_generate(id) and    *)
(* then to message(from, data).                                            *)

Manager(i) == [triples |-> triples[i], generators |-> generators[i], mine |-> mine[i]]

Managers == [i \in Nodes |-> Manager(i)]

SetManagers(ms) ==
    /\ triples' = [i \in Nodes |-> ms[i].triples]
    /\ generators' = [i \in Nodes |-> ms[i].generators]
    /\ mine' = [i \in Nodes |-> ms[i].mine]

Ret(op, i, args, res, err, val) ==
    [op |-> op, node |-> i, args |-> args, res |-> res, err |-> err, val |-> val]

\* the randomness cs gives the protocol instance manager i creates for id
Drawn(cs, i, id) == IF <<i, id>> \in DOMAIN cs THEN cs[<<i, id>>] ELSE 0

\* the body of the `for ... in messages` loop of TestManagers::poke, from the
\* k-th message on
RECURSIVE DeliverFrom(_, _, _, _)
DeliverFrom(ms, messages, k, cs) ==
    IF k > Len(messages) THEN ms
    ELSE LET i == messages[k].to
             tm == messages[k].msg
             r == get_or_generate(ms[i], tm.id, Drawn(cs, i, tm.id))
             after == IF r.res = "Some"
                      THEN [r.tm EXCEPT !.generators[tm.id] =
                                ProtocolMessage(@, i, tm.from, tm.data)]
                      ELSE r.tm
         IN  DeliverFrom([ms EXCEPT ![i] = after], messages, k + 1, cs)

\* the (manager, id) pairs for which delivering `messages` creates a protocol
\* instance
Joining(ms, messages) ==
    {<<messages[k].to, messages[k].msg.id>> : k \in 1 .. Len(messages)}
        \cap {<<i, id>> \in Nodes \X Ids :
                 id \notin DOMAIN ms[i].triples /\ id \notin DOMAIN ms[i].generators}

\* TestManagers::poke(index) after self.managers[index].poke() returned r
TestPoked(ms, index, cs, r) ==
    IF r.res = "Err"
    THEN [managers |-> [ms EXCEPT ![index] = r.tm], res |-> "Err", quiet |-> TRUE]
    ELSE [managers |-> DeliverFrom([ms EXCEPT ![index] = r.tm], r.messages, 1, cs),
          res |-> "Ok", quiet |-> (r.messages = <<>>)]

\* TestManagers::poke(index)
TestPoke(ms, index, ord, cs) == TestPoked(ms, index, cs, poke(ms[index], index, ord))

\* the last call is not one the model keeps the result of
NoRet == Ret("none", 0, <<>>, "none", 0, <<>>)

TMInit ==
    /\ triples = [i \in Nodes |-> EmptyMap]
    /\ generators = [i \in Nodes |-> EmptyMap]
    /\ mine = [i \in Nodes |-> <<>>]
    /\ panicked = FALSE
    /\ ret = NoRet
    /\ spent = [i \in Nodes |-> {}]
    /\ nGen = 0
    /\ nTake = 0
    /\ NodeIdle

\* TestManagers::generate(index)
Generate(i) ==
    /\ ~panicked
    /\ nGen < MaxGenerate
    /\ \E id \in Ids, c \in Entropy :
          SetManagers([Managers EXCEPT ![i] = generate(@, id, c)])
    /\ ret' = NoRet
    /\ nGen' = nGen + 1
    /\ UNCHANGED <<panicked, spent, nTake>>
    /\ UNCHANGED nodeVars

\* the quorum after TestManagers::poke(i) came to r
QuorumPoked(i, r) ==
    /\ SetManagers(r.managers)
    /\ ret' = Ret("poke", i, <<>>, r.res, 0, <<>>)

\* TestManagers::poke(i)
Poke(i) ==
    /\ ~panicked
    /\ \E ord \in Orders(DOMAIN generators[i]) :
          \E cs \in [Joining(Managers, poke(Manager(i), i, ord).messages) -> Entropy] :
             QuorumPoked(i, TestPoke(Managers, i, ord, cs))
    /\ UNCHANGED <<panicked, spent, nGen, nTake>>
    /\ UNCHANGED nodeVars

\* managers[i].take_two(id0, id1)
TakeTwo(i, id0, id1) ==
    /\ ~panicked
    /\ nTake < MaxTakes \/ take_two(Manager(i), id0, id1).res = "Err"
    /\ LET r == take_two(Manager(i), id0, id1) IN
          /\ SetManagers([Managers EXCEPT ![i] = r.tm])
          /\ ret' = Ret("take_two", i, <<id0, id1>>, r.res, r.err, r.val)
          /\ panicked' = (r.res = "panic")
          /\ spent' = [spent EXCEPT ![i] = IF r.res = "Ok" THEN @ \cup {id0, id1} ELSE @]
          /\ nTake' = IF r.res # "Err" THEN nTake + 1 ELSE nTake
    /\ UNCHANGED <<nGen>>
    /\ UNCHANGED nodeVars

\* managers[i].take_two_mine()
TakeTwoMine(i) ==
    /\ ~panicked
    /\ nTake < MaxTakes \/ Len(mine[i]) < 2
    /\ LET r == take_two_mine(Manager(i)) IN
          /\ SetManagers([Managers EXCEPT ![i] = r.tm])
          /\ ret' = Ret("take_two_mine", i, <<r.id0, r.id1>>, r.res, 0, r.val)
          /\ panicked' = (r.res = "panic")
          /\ spent' = [spent EXCEPT ![i] = IF r.res = "Ok" THEN @ \cup {r.id0, r.id1} ELSE @]
          /\ nTake' = IF Len(mine[i]) >= 2 THEN nTake + 1 ELSE nTake
    /\ UNCHANGED <<nGen>>
    /\ UNCHANGED nodeVars

-----------------------------------------------------------------------------
(* One TripleManager under any sequence of calls.  Its inbound messages    *)
(* come from the network: any sender of the participant list, any id and   *)
(* any payload the protocol knows.                                         *)


\* the payloads a TripleMessage from sender `from` for triple id can carry: a
\* sender addresses itself only in a SendMany, which carries a commitment.
\* The commitment of a peer to one triple is the same value in every message
\* (its randomness for that triple, here the id modulo the range); the shares
\* range over every digest, those that match the manager's view and those
\* that do not.
Payloads(from, id) ==
    {[kind |-> "commit", v |-> id % (MaxEntropy + 1)]}
        \cup (IF from = Me THEN {}
              ELSE {[kind |-> "share", v |-> d] :
                       d \in 0 .. ((MaxEntropy + 1) ^ NumNodes - 1)})

\* manager Me's generate()
ManagerGenerate ==
    /\ ~panicked
    /\ \E id \in Ids, c \in Entropy :
          SetManagers([Managers EXCEPT ![Me] = generate(@, id, c)])
    /\ ret' = NoRet
    /\ UNCHANGED <<panicked, spent, nGen, nTake>>
    /\ UNCHANGED nodeVars

\* manager Me after its poke() returned r
ManagerPoked(r) ==
    /\ SetManagers([Managers EXCEPT ![Me] = r.tm])
    /\ ret' = Ret("poke", Me, <<>>, r.res, 0, r.messages)

\* manager Me's poke(); the caller sends the messages it returns
ManagerPoke ==
    /\ ~panicked
    /\ \E ord \in Orders(DOMAIN generators[Me]) : ManagerPoked(poke(Manager(Me), Me, ord))
    /\ UNCHANGED <<panicked, spent, nGen, nTake>>
    /\ UNCHANGED nodeVars

\* an inbound TripleMessage {id, from, data}: get_or_generate(id), then
\* message(from, data) on the protocol it returned
Receive(id, from, data) ==
    /\ ~panicked
    /\ \E c \in (IF id \in DOMAIN triples[Me] \cup DOMAIN generators[Me] THEN {0} ELSE Entropy) :
          LET r == get_or_generate(Manager(Me), id, c)
              after == IF r.res = "Some"
                       THEN [r.tm EXCEPT !.generators[id] = ProtocolMessage(@, Me, from, data)]
                       ELSE r.tm
          IN  /\ SetManagers([Managers EXCEPT ![Me] = after])
              /\ ret' = Ret("get_or_generate", Me, <<id>>, r.res, 0, <<>>)
    /\ UNCHANGED <<panicked, spent, nGen, nTake>>
    /\ UNCHANGED nodeVars

Init == TMInit

Next ==
    \/ ManagerGenerate
    \/ ManagerPoke
    \/ \E id \in Ids, from \in Nodes : \E data \in Payloads(from, id) : Receive(id, from, data)
    \/ \E id0, id1 \in Ids : TakeTwo(Me, id0, id1)
    \/ TakeTwoMine(Me)

Spec == Init /\ [][Next]_vars

-----------------------------------------------------------------------------
(* take_two and take_two_mine as functions of the manager they are called  *)
(* on: the manager starts with any stock of completed triples over the ids *)
(* 1 .. MaxStock, its own ones queued in `mine` in the order they          *)
(* completed, and the two calls are applied to it.                         *)

StockIds == 1 .. MaxStock

\* a completed triple as poke() stores it
StoredTriple(id, d) ==
    [id |-> id, share |-> TripleOutput(Me, d).share, public |-> TripleOutput(Me, d).public]

\* the stocks of completed triples: any ids, any agreed digests
Stocks ==
    UNION {[S -> 0 .. ((MaxEntropy + 1) ^ NumNodes - 1)] : S \in SUBSET StockIds}

TakeInit ==
    /\ \E stock \in Stocks :
          /\ triples = [i \in Nodes |->
                           IF i = Me THEN [id \in DOMAIN stock |-> StoredTriple(id, stock[id])]
                           ELSE EmptyMap]
          /\ \E order \in Orders({id \in DOMAIN stock :
                                     triple_is_mine(StoredTriple(id, stock[id]).public, Me)}) :
                mine = [i \in Nodes |-> IF i = Me THEN order ELSE <<>>]
    /\ generators = [i \in Nodes |-> EmptyMap]
    /\ panicked = FALSE
    /\ ret = NoRet
    /\ spent = [i \in Nodes |-> {}]
    /\ nGen = 0
    /\ nTake = 0
    /\ NodeIdle

TakeNext ==
    \/ \E id0, id1 \in StockIds : TakeTwo(Me, id0, id1)
    \/ TakeTwoMine(Me)

SpecTake == TakeInit /\ [][TakeNext]_vars

\* the quorum as TestManagers drives it, with take_two and take_two_mine
\* called on its managers
QuorumTakeTwo(i, id0, id1) ==
    /\ ~panicked
    /\ nTake < MaxTakes
    /\ take_two(Manager(i), id0, id1).res # "Err"
    /\ LET r == take_two(Manager(i), id0, id1) IN
          /\ SetManagers([Managers EXCEPT ![i] = r.tm])
          /\ panicked' = (r.res = "panic")
          /\ spent' = [spent EXCEPT ![i] = IF r.res = "Ok" THEN @ \cup {id0, id1} ELSE @]
    /\ nTake' = nTake + 1
    /\ ret' = NoRet
    /\ UNCHANGED <<nGen>>
    /\ UNCHANGED nodeVars

QuorumTakeTwoMine(i) ==
    /\ ~panicked
    /\ nTake < MaxTakes
    /\ Len(mine[i]) >= 2
    /\ LET r == take_two_mine(Manager(i)) IN
          /\ SetManagers([Managers EXCEPT ![i] = r.tm])
          /\ panicked' = (r.res = "panic")
          /\ spent' = [spent EXCEPT ![i] = IF r.res = "Ok" THEN @ \cup {r.id0, r.id1} ELSE @]
    /\ nTake' = nTake + 1
    /\ ret' = NoRet
    /\ UNCHANGED <<nGen>>
    /\ UNCHANGED nodeVars

QuorumNext ==
    \/ \E i \in Nodes : Generate(i)
    \/ \E i \in Nodes : Poke(i)
    \/ \E i \in Nodes, id0, id1 \in Ids : QuorumTakeTwo(i, id0, id1)
    \/ \E i \in Nodes : QuorumTakeTwoMine(i)

SpecQuorum == Init /\ [][QuorumNext]_vars

-----------------------------------------------------------------------------
(* The cryptographic driver (cryptography.rs).  The key generation and the *)
(* resharing protocols are cait-sith protocols behind poke(): within one   *)
(* progress call the protocol yields some Send actions and then Wait, a    *)
(* Return or a ProtocolError.  That run of actions is the `script` of the  *)
(* call.  The library addresses a SendPrivate to another party than the    *)
(* caller; the model lets it name any such party, in the roster or not.    *)
(* Every send is an http request that can fail: `fail` is the number of    *)
(* the request of the call that fails, 0 when none does.                   *)

\* the participant ids in use: those of the quorum and one more
AllParticipants == 0 .. NumNodes

Rosters == {ps \in SUBSET AllParticipants : Cardinality(ps) >= 2}

Epochs == 0 .. MaxEpoch
Secrets == 0 .. MaxSecret
\* the threshold of the deployment: every participant, as in TestManagers
Thresholds == {NumNodes}

Wait == [type |-> "Wait"]

ProtocolError == [type |-> "Err"]

SendActions ==
    {[type |-> "SendMany", data |-> 0]}
        \cup {[type |-> "SendPrivate", to |-> p, data |-> 0] : p \in AllParticipants \ {Me}}

SendRuns == UNION {[1 .. n -> SendActions] : n \in 0 .. MaxActions}

\* what one progress call can see a key generation protocol yield
KeygenScripts ==
    {run \o <<end>> :
        run \in SendRuns,
        end \in {Wait, ProtocolError}
                  \cup {[type |-> "Return",
                         output |-> [private_share |-> x, public_key |-> y]] :
                           x \in Secrets, y \in Secrets}}

\* what one progress call can see a resharing protocol yield
ReshareScripts ==
    {run \o <<end>> :
        run \in SendRuns,
        end \in {Wait, ProtocolError}
                  \cup {[type |-> "Return", output |-> x] : x \in Secrets}}

\* an http request of a progress call: the recipient, the path (plain or
\* encrypted), the MpcMessage and the number k of the action it comes from
Request(to, encrypted, msg, k) ==
    [to |-> to, encrypted |-> encrypted, msg |-> msg, k |-> k]

GeneratingMessage(from, data) == [kind |-> "Generating", from |-> from, data |-> data]

ResharingMessage(e, from, data) ==
    [kind |-> "Resharing", epoch |-> e, from |-> from, data |-> data]

\* a SendMany that reaches nobody
SendManyRequestsNone(ps, me, msg, k) == <<>>

\* the requests of a SendMany over roster ps: every participant but me
SendManyRequests(ps, me, msg, k) ==
    LET others == SelectSeq(Ascending(ps), LAMBDA p : p # me)
    IN  [j \in 1 .. Len(others) |-> Request(others[j], FALSE, msg, k)]

\* the Return arm starting the key at epoch 1
GeneratingReturnEpochOne(self, r) ==
    WaitingForConsensusState(1, self.participants, self.threshold,
                             r.private_share, r.public_key)

\* a lookup that finds every participant id
contains_any(ps, p) == TRUE

\* participants.get(&p) is Some: p is a key of the Participants map
contains_key(ps, p) == p \in ps

\* what the Return arm of GeneratingState::progress returns
GeneratingReturn(self, r) ==
    WaitingForConsensusState(0, self.participants, self.threshold,
                             r.private_share, r.public_key)

\* the Return arm with the epoch of the Generating arm
ResharingReturnEpochZero(self, private_share) ==
    WaitingForConsensusState(0, self.new_participants, self.threshold,
                             private_share, self.public_key)

\* the Return arm keeping the old roster and epoch
ResharingReturnStale(self, private_share) ==
    WaitingForConsensusState(self.old_epoch, self.old_participants, self.threshold,
                             private_share, self.public_key)

\* what the Return arm of ResharingState::progress returns
ResharingReturn(self, private_share) ==
    WaitingForConsensusState(self.old_epoch + 1, self.new_participants, self.threshold,
                             private_share, self.public_key)

\* the outcome of a progress call before its requests are made: the requests
\* it makes when none fails, and how it ends then
Ends(requests, res, err, st, k) ==
    [requests |-> requests, res |-> res, err |-> err, state |-> st, k |-> k]

\* the loop of GeneratingState::progress of node me from the k-th action of
\* the script; me_known says whether ctx.me() finds the node's account in the stored state
RECURSIVE GeneratingLoop(_, _, _, _, _)
GeneratingLoop(self, me, me_known, script, k) ==
    LET a == script[k] IN
    IF a.type = "Err" THEN Ends(<<>>, "Err", "CaitSithProtocolError", None, k)
    ELSE IF a.type = "Wait" THEN Ends(<<>>, "Ok", "", self, k)
    ELSE IF a.type = "Return" THEN Ends(<<>>, "Ok", "", GeneratingReturn(self, a.output), k)
    ELSE IF a.type = "SendMany"
    THEN IF ~me_known THEN Ends(<<>>, "panic", "", None, k)
         ELSE LET rest == GeneratingLoop(self, me, me_known, script, k + 1)
              IN  [rest EXCEPT !.requests =
                      SendManyRequests(self.participants, me,
                                       GeneratingMessage(me, a.data), k) \o @]
    ELSE IF ~contains_key(self.participants, a.to)
    THEN Ends(<<>>, "Err", "UnknownParticipant", None, k)
    ELSE IF ~me_known THEN Ends(<<>>, "panic", "", None, k)
    ELSE LET rest == GeneratingLoop(self, me, me_known, script, k + 1)
         IN  [rest EXCEPT !.requests =
                 <<Request(a.to, TRUE, GeneratingMessage(me, a.data), k)>> \o @]

\* the loop of ResharingState::progress from the k-th action of the script
RECURSIVE ResharingLoop(_, _, _, _)
ResharingLoop(self, me_known, script, k) ==
    LET a == script[k] IN
    IF a.type = "Err" THEN Ends(<<>>, "panic", "", None, k)
    ELSE IF a.type = "Wait" THEN Ends(<<>>, "Ok", "", self, k)
    ELSE IF a.type = "Return" THEN Ends(<<>>, "Ok", "", ResharingReturn(self, a.output), k)
    ELSE IF a.type = "SendMany"
    THEN IF ~me_known THEN Ends(<<>>, "panic", "", None, k)
         ELSE LET rest == ResharingLoop(self, me_known, script, k + 1)
              IN  [rest EXCEPT !.requests =
                      SendManyRequests(self.new_participants, Me,
                                       ResharingMessage(self.old_epoch, Me, a.data), k) \o @]
    ELSE IF ~contains_key(self.new_participants, a.to)
    THEN Ends(<<>>, "Err", "UnknownParticipant", None, k)
    ELSE IF ~me_known THEN Ends(<<>>, "panic", "", None, k)
    ELSE LET rest == ResharingLoop(self, me_known, script, k + 1)
         IN  [rest EXCEPT !.requests =
                 <<Request(a.to, TRUE, ResharingMessage(self.old_epoch, Me, a.data), k)>> \o @]

\* `.await?` on every request: the call ends with a SendError at request
\* number `fail`, the requests before it made
Awaited(ends, fail) ==
    IF fail \in 1 .. Len(ends.requests)
    THEN [ends EXCEPT !.requests = SubSeq(@, 1, fail - 1), !.res = "Err",
                      !.err = "SendError", !.state = None, !.k = ends.requests[fail].k]
    ELSE ends

TripleMessage(id, e, from, data) ==
    [kind |-> "Triple", id |-> id, epoch |-> e, from |-> from, data |-> data]

\* the `for` loop of RunningState::progress over the messages poke() returned,
\* from the k-th on.  The manager of a Running state carries the state's
\* epoch; a message goes the plain path when it comes from a SendMany, which
\* in the model is a commitment.
RECURSIVE RunningLoop(_, _, _, _)
RunningLoop(self, me_known, messages, k) ==
    IF k > Len(messages) THEN Ends(<<>>, "Ok", "", self, k)
    ELSE LET p == messages[k].to
             m == messages[k].msg
             msg == TripleMessage(m.id, self.epoch, m.from, m.data)
             is_public == (m.data.kind = "commit")
         IN  IF ~contains_key(self.participants, p)
             THEN Ends(<<>>, "Err", "UnknownParticipant", None, k)
             ELSE IF ~is_public /\ ~me_known THEN Ends(<<>>, "panic", "", None, k)
             ELSE LET rest == RunningLoop(self, me_known, messages, k + 1)
                  IN  [rest EXCEPT !.requests = <<Request(p, ~is_public, msg, k)>> \o @]

\* what a progress call leaves: its result, the requests it made, the action
\* the protocol yielded last, and the triple manager
Progressed(ends, yielded, tm) ==
    [res |-> ends.res, err |-> ends.err, state |-> ends.state,
     requests |-> [j \in 1 .. Len(ends.requests) |->
                      [to |-> ends.requests[j].to,
                       encrypted |-> ends.requests[j].encrypted,
                       msg |-> ends.requests[j].msg]],
     yielded |-> yielded, tm |-> tm]

\* GeneratingState::progress
GeneratingProgress(self, me_known, script, fail, tm) ==
    LET ends == Awaited(GeneratingLoop(self, Me, me_known, script, 1), fail)
    IN  Progressed(ends, script[ends.k], tm)

\* ResharingState::progress
ResharingProgress(self, me_known, script, fail, tm) ==
    LET ends == Awaited(ResharingLoop(self, me_known, script, 1), fail)
    IN  Progressed(ends, script[ends.k], tm)

\* the first statement of RunningState::progress generating below three
StockedBelowThree(tm, id, c) == IF potential_len(tm) < 3 THEN generate(tm, id, c) ELSE tm

\* the triple manager after the first statement of RunningState::progress,
\* with (id, c) the id and the randomness generate() draws
Stocked(tm, id, c) == IF potential_len(tm) < 2 THEN generate(tm, id, c) ELSE tm

\* the draws of generate() that make a difference
Draws(tm) == IF potential_len(tm) < 2 THEN Ids \X Entropy ELSE {<<1, 0>>}

\* a sequence back to front
Reversed(q) == [k \in 1 .. Len(q) |-> q[Len(q) + 1 - k]]

\* RunningState::progress sending the messages of poke() last first
RunningProgressReversed(self, me_known, poked, fail) ==
    IF poked.res = "Err"
    THEN Progressed(Ends(<<>>, "Err", "CaitSithProtocolError", None, 0), None, poked.tm)
    ELSE Progressed(Awaited(RunningLoop(self, me_known, Reversed(poked.messages), 1), fail),
                    None, poked.tm)

\* RunningState::progress from its call of poke() on, `poked` being what the
\* call returned
RunningProgress(self, me_known, poked, fail) ==
    IF poked.res = "Err"
    THEN Progressed(Ends(<<>>, "Err", "CaitSithProtocolError", None, 0), None, poked.tm)
    ELSE Progressed(Awaited(RunningLoop(self, me_known, poked.messages, 1), fail),
                    None, poked.tm)

\* the outcomes of a call whose protocol yields `script`, over the request
\* that fails
GeneratingProgresses(self, me_known, script, tm) ==
    {GeneratingProgress(self, me_known, script, fail, tm) :
        fail \in 0 .. Len(GeneratingLoop(self, Me, me_known, script, 1).requests)}

ResharingProgresses(self, me_known, script, tm) ==
    {ResharingProgress(self, me_known, script, fail, tm) :
        fail \in 0 .. Len(ResharingLoop(self, me_known, script, 1).requests)}

RunningProgresses(self, me_known, poked) ==
    {RunningProgress(self, me_known, poked, fail) : fail \in 0 .. Len(poked.messages)}

\* NodeState::progress: everything a call on state st can come to, over the
\* scripts of its protocol, the draws of generate() and the failing requests
progress(st, me_known, tm) ==
    IF st.tag = "Generating"
    THEN UNION {GeneratingProgresses(st, me_known, script, tm) : script \in KeygenScripts}
    ELSE IF st.tag = "Resharing"
    THEN UNION {ResharingProgresses(st, me_known, script, tm) : script \in ReshareScripts}
    ELSE IF st.tag = "Running"
    THEN UNION {UNION {RunningProgresses(st, me_known, poke(Stocked(tm, d[1], d[2]), Me, ord)) :
                          ord \in Orders(DOMAIN Stocked(tm, d[1], d[2]).generators)} :
                  d \in Draws(tm)}
    ELSE {Progressed(Ends(<<>>, "Ok", "", st, 0), None, tm)}

-----------------------------------------------------------------------------
(* advance and handle.  Their code (consensus.rs, message.rs) is not part  *)
(* of the sources at hand; they follow the transition table and the        *)
(* dispatch rules of the design document.  Where the table leaves a        *)
(* combination open the call either returns the state unchanged or fails   *)
(* with a ConsensusError.                                                  *)

\* the contract states a fetch can return.  The roster of a running contract
\* is the quorum of the model, whose triple managers share `participants`.
ContractStates ==
    {[tag |-> "Initializing", candidates |-> ps, threshold |-> t] :
        ps \in Rosters, t \in Thresholds}
    \cup {[tag |-> "Running", epoch |-> e, participants |-> Nodes, threshold |-> t,
           public_key |-> y] : e \in Epochs, t \in Thresholds, y \in Secrets}
    \cup {[tag |-> "Resharing", old_epoch |-> e, old_participants |-> Nodes,
           new_participants |-> ps, threshold |-> t, public_key |-> y] :
             e \in 0 .. (MaxEpoch - 1), ps \in Rosters, t \in Thresholds, y \in Secrets}

Advanced(st) == [res |-> "Ok", state |-> st]

ConsensusError == [res |-> "Err", state |-> None]

\* a combination the table leaves open
Open(st) == {Advanced(st), ConsensusError}

\* the contract's Resharing state taken over
EnterResharing(c) ==
    ResharingState(c.old_epoch, c.old_participants, c.new_participants, c.threshold,
                   c.public_key)

\* a contract that resharing follows whatever epoch the node is at
FollowsAny(st, c) == TRUE

\* whether the resharing contract c starts from the epoch of state st
Follows(st, c) == c.old_epoch = st.epoch

\* whether the running contract c is at the epoch of state st with its roster
Matches(st, c) == c.epoch = st.epoch /\ c.participants = st.participants

\* NodeState::advance(ctx, contract_state): the outcomes of the call, `disk`
\* being what the node's storage holds
advance(st, c, disk) ==
    IF st.tag = "Starting" THEN {Advanced(StartedState(disk))}
    ELSE IF st.tag = "Started" /\ st.data = None
    THEN IF c.tag = "Initializing"
         THEN IF Me \in c.candidates
              THEN {Advanced(GeneratingState(c.candidates, c.threshold))}
              ELSE {Advanced(st)}
         ELSE IF c.tag = "Running"
         THEN IF Me \in c.participants
              THEN {Advanced(JoiningState(c.participants, c.public_key))}
              ELSE {Advanced(st)}
         ELSE Open(st)
    ELSE IF st.tag = "Started"
    THEN LET d == st.data IN
         IF c.tag = "Initializing"
         THEN IF d.epoch = 0 /\ Me \in c.candidates
              THEN {Advanced(WaitingForConsensusState(d.epoch, c.candidates, c.threshold,
                                                      d.private_share, d.public_key))}
              ELSE Open(st)
         ELSE IF c.tag = "Running"
         THEN IF d.epoch = c.epoch
              THEN {Advanced(RunningState(c.epoch, c.participants, c.threshold,
                                          d.private_share, d.public_key))}
              ELSE Open(st)
         ELSE IF d.epoch = c.old_epoch THEN {Advanced(EnterResharing(c))} ELSE Open(st)
    ELSE IF st.tag = "Generating"
    THEN IF c.tag = "Resharing" THEN Open(st) ELSE {Advanced(st)}
    ELSE IF st.tag = "WaitingForConsensus"
    THEN IF c.tag = "Initializing" THEN Open(st)
         ELSE IF c.tag = "Running"
         THEN IF ~Matches(st, c) THEN Open(st)
              ELSE IF st.threshold # c.threshold \/ st.public_key # c.public_key
              THEN {ConsensusError}
              ELSE {Advanced(RunningState(st.epoch, c.participants, st.threshold,
                                          st.private_share, st.public_key))}
         ELSE IF Follows(st, c) THEN {Advanced(EnterResharing(c))} ELSE Open(st)
    ELSE IF st.tag = "Running"
    THEN IF c.tag = "Initializing" THEN Open(st)
         ELSE IF c.tag = "Running" THEN {Advanced(st)}
         ELSE IF Follows(st, c) THEN {Advanced(EnterResharing(c))} ELSE Open(st)
    ELSE IF st.tag = "Resharing"
    THEN IF c.tag = "Initializing" THEN Open(st)
         ELSE IF c.tag = "Resharing" THEN {Advanced(st)}
         ELSE IF c.epoch = st.old_epoch + 1 /\ disk # None
         THEN {Advanced(WaitingForConsensusState(c.epoch, c.participants, c.threshold,
                                                 disk.private_share, st.public_key))}
         ELSE Open(st)
    ELSE \* Joining
         IF c.tag = "Initializing" THEN Open(st)
         ELSE IF c.tag = "Running" /\ Me \in c.participants /\ disk # None
         THEN {Advanced(RunningState(c.epoch, c.participants, c.threshold,
                                     disk.private_share, disk.public_key))}
         ELSE {Advanced(st)}

\* the triple ids of the messages from the peers
InboundIds == {1}

\* the messages the web surface can put on the channel
Inbound ==
    {GeneratingMessage(p, 0) : p \in Nodes \ {Me}}
    \cup {ResharingMessage(e, p, 0) : e \in 0 .. (MaxEpoch - 1), p \in Nodes \ {Me}}
    \cup {TripleMessage(id, e, p, [kind |-> "commit", v |-> 0]) :
             id \in InboundIds, e \in Epochs, p \in Nodes \ {Me}}

\* whether message m is for the variant of state st
Routed(st, m) ==
    \/ m.kind = "Generating" /\ st.tag = "Generating"
    \/ m.kind = "Resharing" /\ st.tag = "Resharing"
    \/ m.kind = "Triple" /\ st.tag = "Running"

\* a router that looks at no epoch
AcceptedAnyEpoch(st, m) == TRUE

\* whether message m, routed to state st, carries the epoch st takes: a
\* Resharing message the old_epoch, a Triple message the epoch
Accepted(st, m) ==
    \/ m.kind = "Generating"
    \/ m.kind = "Resharing" /\ m.epoch = st.old_epoch
    \/ m.kind = "Triple" /\ m.epoch = st.epoch

\* a Triple message of the state's epoch handed to the triple manager; c is
\* the randomness of the protocol instance get_or_generate may create
Dispatch(st, m, tm, c) ==
    IF m.kind = "Triple" /\ Accepted(st, m)
    THEN LET r == get_or_generate(tm, m.id, c)
         IN  IF r.res = "Some"
             THEN [r.tm EXCEPT !.generators[m.id] = ProtocolMessage(@, Me, m.from, m.data)]
             ELSE r.tm
    ELSE tm

\* whether the routed message m reaches message(from, data) of a protocol
Delivered(st, m, tm) ==
    /\ Accepted(st, m)
    /\ m.kind = "Triple" => m.id \notin DOMAIN tm.triples

\* NodeState::handle(ctx, queue) from the k-th message of the queue: the
\* messages for the state's variant leave the queue, the others stay;
\* `delivered` lists the messages handed to a protocol
RECURSIVE handle(_, _, _, _, _)
handle(st, q, k, tm, c) ==
    IF k > Len(q) THEN [queue |-> <<>>, tm |-> tm, delivered |-> <<>>]
    ELSE IF Routed(st, q[k])
    THEN [handle(st, q, k + 1, Dispatch(st, q[k], tm, c), c)
             EXCEPT !.delivered = IF Delivered(st, q[k], tm) THEN <<q[k]>> \o @ ELSE @]
    ELSE [handle(st, q, k + 1, tm, c) EXCEPT !.queue = <<q[k]>> \o @]

-----------------------------------------------------------------------------
(* The control loop MpcSignProtocol::run (mod.rs).  One action is one turn *)
(* of the loop, named after the way the turn ends.                         *)

\* the queue after the turn has drained the channel into it
Drained == queue \o channel

\* the randomness of the protocol instances handle may create on state st
Joins(st) ==
    IF \E k \in 1 .. Len(Drained) : Routed(st, Drained[k]) /\ Drained[k].kind = "Triple"
    THEN Entropy ELSE {0}

\* the outcomes of state.progress(ctx) on the stored state
Progresses == progress(state, find_participant_info(state, Me), Manager(Me))

\* the outcomes of advance on st over the contract states a fetch can return
Advances(st) == UNION {advance(st, c, storage) : c \in ContractStates}

\* what a turn leaves for inspection: how it ended and how progress ended
TickRecord(path, pr) == [NoTick EXCEPT !.path = path, !.res = pr.res, !.err = pr.err]

\* the record of a turn that ends in tokio::time::sleep before the loop goes
\* back to the fetch; a turn left by `continue` does not pass there
Slept(t) == [t EXCEPT !.slept = TRUE]

\* the triple manager of the state st the turn stores, `before` being the
\* state progress returned and tm its manager: a state entering Running gets
\* a new manager, a state other than Running has none
ManagerOf(st, before, tm) ==
    IF st.tag = "Running" /\ before.tag = "Running" THEN tm ELSE NewManager

SetManager(tm) == SetManagers([Managers EXCEPT ![Me] = tm])

Alive == ~stopped /\ ~panicked

\* the loop is at the top of a turn: no turn is under way past its drain
AtTop == receiver # "closing"

\* a turn can be past its drain: try_recv has not met Disconnected in it
PastDrain == receiver # "closed"

\* the receiver once the turn under way is over
TurnOver == receiver' = IF receiver = "closing" THEN "closed" ELSE receiver

\* the web surface puts message m on the channel
Arrive(m) ==
    /\ Alive
    /\ receiver = "open"
    /\ Len(channel) + Len(queue) < MaxQueue
    /\ channel' = Append(channel, m)
    /\ UNCHANGED <<tmVars, state, queue, outbox, storage, stopped, peers, lock, receiver, tick, lastEpoch>>

\* a loop that drains the channel before it fetches the contract state
TickFetchFailedDrained ==
    /\ Alive
    /\ AtTop
    /\ tick' = Slept([NoTick EXCEPT !.path = "fetch_failed"])
    /\ outbox' = <<>>
    /\ queue' = Drained
    /\ channel' = <<>>
    /\ UNCHANGED <<tmVars, state, storage, stopped, peers, lock, receiver, lastEpoch>>

\* the fetch of the contract state fails: sleep and next turn
TickFetchFailed ==
    /\ Alive
    /\ AtTop
    /\ tick' = Slept([NoTick EXCEPT !.path = "fetch_failed"])
    /\ outbox' = <<>>
    /\ UNCHANGED <<tmVars, state, channel, queue, storage, stopped, peers, lock, receiver, lastEpoch>>

\* the channel is disconnected: run() returns Ok(())
TickDisconnected ==
    /\ Alive
    /\ AtTop
    /\ receiver' = "closed"
    /\ stopped' = TRUE
    /\ tick' = [NoTick EXCEPT !.path = "disconnected"]
    /\ outbox' = <<>>
    /\ queue' = Drained
    /\ channel' = <<>>
    /\ UNCHANGED <<tmVars, state, storage, lastEpoch, peers, lock>>

\* progress panics
TickPanicked ==
    /\ Alive
    /\ PastDrain
    /\ \E pr \in Progresses :
          /\ pr.res = "panic"
          /\ queue' = Drained
          /\ outbox' = pr.requests
          /\ tick' = TickRecord("panic", pr)
          /\ SetManager(pr.tm)
    /\ channel' = <<>>
    /\ panicked' = TRUE
    /\ TurnOver
    /\ UNCHANGED <<ret, spent, nGen, nTake, state, storage, stopped, peers, lock, lastEpoch>>

\* whether handle on state st with queue q can evaluate ctx.me(): MessageCtx
\* has no other method, and a Running state asks for the node's participant
\* when it hands a message of the queue to one of its managers
HandleAsksMe(st, q) ==
    st.tag = "Running" /\ \E k \in 1 .. Len(q) : Routed(st, q[k])

\* progress and advance succeed and handle, called on the state advance
\* returned, evaluates ctx.me(): get_my_participant reads the stored state,
\* still the one of before the turn, finds no participant info in it and
\* panics
TickHandlePanicked ==
    /\ Alive
    /\ PastDrain
    /\ ~find_participant_info(state, Me)
    /\ \E pr \in Progresses :
          /\ pr.res = "Ok"
          /\ \E adv \in Advances(pr.state) :
                /\ adv.res = "Ok"
                /\ HandleAsksMe(adv.state, Drained)
          /\ outbox' = pr.requests
          /\ tick' = TickRecord("handle_panic", pr)
          /\ SetManager(pr.tm)
    /\ queue' = Drained
    /\ channel' = <<>>
    /\ panicked' = TRUE
    /\ TurnOver
    /\ UNCHANGED <<ret, spent, nGen, nTake, state, storage, stopped, peers, lock, lastEpoch>>

\* progress returns an error: next turn
TickProgressFailed ==
    /\ Alive
    /\ PastDrain
    /\ \E pr \in Progresses :
          /\ pr.res = "Err"
          /\ queue' = Drained
          /\ outbox' = pr.requests
          /\ tick' = TickRecord("progress_err", pr)
          /\ SetManager(pr.tm)
    /\ channel' = <<>>
    /\ TurnOver
    /\ UNCHANGED <<panicked, ret, spent, nGen, nTake, state, storage, stopped, peers, lock, lastEpoch>>

\* a loop that stores what progress returned although advance failed
TickAdvanceFailedStored ==
    /\ Alive
    /\ PastDrain
    /\ \E pr \in Progresses :
          /\ pr.res = "Ok"
          /\ ConsensusError \in Advances(pr.state)
          /\ queue' = Drained
          /\ outbox' = pr.requests
          /\ tick' = [TickRecord("advance_err", pr) EXCEPT !.returned = pr.state]
          /\ SetManager(pr.tm)
          /\ state' = pr.state
    /\ channel' = <<>>
    /\ TurnOver
    /\ UNCHANGED <<panicked, ret, spent, nGen, nTake, storage, stopped, peers, lock, lastEpoch>>

\* advance returns an error: next turn
TickAdvanceFailed ==
    /\ Alive
    /\ PastDrain
    /\ \E pr \in Progresses :
          /\ pr.res = "Ok"
          /\ ConsensusError \in Advances(pr.state)
          /\ queue' = Drained
          /\ outbox' = pr.requests
          /\ tick' = [TickRecord("advance_err", pr) EXCEPT !.returned = pr.state]
          /\ SetManager(pr.tm)
    /\ channel' = <<>>
    /\ TurnOver
    /\ UNCHANGED <<panicked, ret, spent, nGen, nTake, state, storage, stopped, peers, lock, lastEpoch>>

\* a loop that calls advance and handle first and progress last
TickWrittenProgressLast ==
    /\ Alive
    /\ PastDrain
    /\ \E adv \in Advances(state) : \E c \in Joins(adv.state) :
          /\ adv.res = "Ok"
          /\ \E pr \in progress(adv.state, find_participant_info(adv.state, Me),
                                handle(adv.state, Drained, 1,
                                       ManagerOf(adv.state, state, Manager(Me)), c).tm) :
                /\ pr.res = "Ok"
                /\ state' = pr.state
                /\ SetManager(pr.tm)
                /\ outbox' = pr.requests
                /\ tick' = Slept(TickRecord("written", pr))
                /\ lastEpoch' = IF EpochOf(pr.state) # Absent
                                THEN EpochOf(pr.state) ELSE lastEpoch
          /\ queue' = handle(adv.state, Drained, 1, NewManager, c).queue
    /\ channel' = <<>>
    /\ TurnOver
    /\ UNCHANGED <<panicked, ret, spent, nGen, nTake, storage, stopped, peers, lock>>

\* progress, advance and handle succeed: the state is stored, then sleep
TickWritten ==
    /\ Alive
    /\ PastDrain
    /\ \E pr \in Progresses :
          /\ pr.res = "Ok"
          /\ \E adv \in Advances(pr.state) : \E c \in Joins(adv.state) :
                /\ adv.res = "Ok"
                /\ LET h == handle(adv.state, Drained, 1,
                                   ManagerOf(adv.state, pr.state, pr.tm), c)
                   IN  /\ queue' = h.queue
                       /\ SetManager(h.tm)
                /\ state' = adv.state
                /\ lastEpoch' = IF EpochOf(adv.state) # Absent
                                THEN EpochOf(adv.state) ELSE lastEpoch
          /\ outbox' = pr.requests
          /\ tick' = Slept(TickRecord("written", pr))
    /\ channel' = <<>>
    /\ TurnOver
    /\ UNCHANGED <<panicked, ret, spent, nGen, nTake, storage, stopped, peers, lock>>

\* the persistent data a node's disk can hold when it starts
PersistentData ==
    {None} \cup {PersistentNodeData(e, MaxSecret, MaxSecret) : e \in 0 .. (MaxEpoch - 1)}

NodeInit ==
    /\ triples = [i \in Nodes |-> EmptyMap]
    /\ generators = [i \in Nodes |-> EmptyMap]
    /\ mine = [i \in Nodes |-> <<>>]
    /\ panicked = FALSE
    /\ ret = NoRet
    /\ spent = [i \in Nodes |-> {}]
    /\ nGen = 0
    /\ nTake = 0
    /\ state = Starting
    /\ channel = <<>>
    /\ queue = <<>>
    /\ outbox = <<>>
    /\ storage \in PersistentData
    /\ stopped = FALSE
    /\ receiver = "open"
    /\ tick = NoTick
    /\ lastEpoch = Absent
    /\ lock = Unlocked
    /\ peers = NoPeers

NodeNext ==
    \/ \E m \in Inbound : Arrive(m)
    \/ TickFetchFailed
    \/ TickDisconnected
    \/ TickPanicked
    \/ TickHandlePanicked
    \/ TickProgressFailed
    \/ TickAdvanceFailed
    \/ TickWritten

SpecNode == NodeInit /\ [][NodeNext]_vars

-----------------------------------------------------------------------------
(* The control loop of a node whose channel can be closed at any moment:   *)
(* when the loop is at the top of a turn, or while a turn is past its      *)
(* drain.  Every step of a turn returns (the requests are awaited, the     *)
(* sleep ends) and a fetch of the contract state succeeds in the end.      *)

\* the web surface drops the sender of the channel
Disconnect ==
    /\ Alive
    /\ receiver = "open"
    /\ receiver' \in {"closing", "closed"}
    /\ UNCHANGED <<tmVars, state, channel, queue, outbox, storage, stopped, peers, lock, tick, lastEpoch>>

\* the rest of a turn that is past its drain
TurnRest ==
    \/ TickPanicked
    \/ TickProgressFailed
    \/ TickAdvanceFailed
    \/ TickWritten

StopNext ==
    \/ Disconnect
    \/ TickFetchFailed
    \/ TickDisconnected
    \/ TurnRest

\* the turn under way when the sender was dropped comes to its end
TurnEnds == receiver = "closing" /\ receiver' = "closed"

\* a turn that starts after the sender was dropped fetches the contract state
\* and meets Disconnected
TurnStops == receiver = "closed" /\ TickDisconnected

SpecStop ==
    /\ NodeInit
    /\ [][StopNext]_vars
    /\ WF_receiver(TurnEnds)
    /\ WF_vars(TurnStops)

-----------------------------------------------------------------------------
(* progress as a function of the state it is called on: the state is any   *)
(* state the node can hold, progress is applied to it and then to what it  *)
(* returned, and the messages of the peers reach the triple manager of a   *)
(* Running state in between.                                               *)

DriverStates ==
    {GeneratingState(ps, t) : ps \in {r \in Rosters : Me \in r}, t \in Thresholds}
    \cup {ResharingState(e, Nodes, ps, t, y) :
             e \in 0 .. (MaxEpoch - 1), ps \in Rosters, t \in Thresholds, y \in Secrets}
    \cup {RunningState(e, Nodes, t, x, y) :
             e \in Epochs, t \in Thresholds, x \in Secrets, y \in Secrets}
    \cup {WaitingForConsensusState(e, Nodes, t, 0, 0) : e \in Epochs, t \in Thresholds}
    \cup {Starting, StartedState(None), JoiningState(Nodes, 0)}

DriverInit ==
    /\ triples = [i \in Nodes |-> EmptyMap]
    /\ generators = [i \in Nodes |-> EmptyMap]
    /\ mine = [i \in Nodes |-> <<>>]
    /\ panicked = FALSE
    /\ ret = NoRet
    /\ spent = [i \in Nodes |-> {}]
    /\ nGen = 0
    /\ nTake = 0
    /\ state \in DriverStates
    /\ channel = <<>>
    /\ queue = <<>>
    /\ outbox = <<>>
    /\ storage = None
    /\ stopped = FALSE
    /\ receiver = "open"
    /\ tick = NoTick
    /\ lastEpoch = Absent
    /\ lock = Unlocked
    /\ peers = NoPeers

\* what a progress call leaves for inspection: the variant it was called on,
\* how it ended, the action its protocol yielded last and the state it returned
DriverRecord(pr) ==
    [NoTick EXCEPT !.path = "progress", !.on = state.tag, !.res = pr.res, !.err = pr.err,
                   !.yielded = pr.yielded, !.returned = pr.state]

\* state.progress(ctx)
DriverProgress ==
    /\ Alive
    /\ \E pr \in Progresses :
          /\ outbox' = pr.requests
          /\ tick' = DriverRecord(pr)
          /\ SetManager(pr.tm)
          /\ state' = IF pr.res = "Ok" THEN pr.state ELSE state
          /\ panicked' = (pr.res = "panic")
    /\ UNCHANGED <<ret, spent, nGen, nTake, channel, queue, storage, stopped, peers, lock,
                   receiver, lastEpoch>>

\* state.handle(ctx, queue) with message m pushed to the queue
DriverDeliver(m) ==
    /\ Alive
    /\ Len(queue) < MaxQueue
    /\ \E c \in Entropy :
          LET h == handle(state, Append(queue, m), 1, Manager(Me), c)
          IN  /\ SetManager(h.tm)
              /\ queue' = h.queue
              /\ tick' = [NoTick EXCEPT !.path = "handle", !.on = state.tag,
                                        !.handled = Append(queue, m),
                                        !.delivered = h.delivered]
    /\ outbox' = <<>>
    /\ UNCHANGED <<panicked, ret, spent, nGen, nTake, state, channel, storage, stopped, peers, lock, receiver,
                   lastEpoch>>

DriverNext ==
    \/ DriverProgress
    \/ \E m \in Inbound : DriverDeliver(m)

SpecDriver == DriverInit /\ [][DriverNext]_vars

-----------------------------------------------------------------------------
(* advance as a function of the state it is called on and of the contract  *)
(* state the turn has fetched.                                             *)

AdvanceStates ==
    DriverStates
    \cup {WaitingForConsensusState(e, ps, t, 0, 0) :
             e \in Epochs, ps \in {r \in Rosters : Me \in r}, t \in Thresholds}
    \cup {StartedState(d) : d \in PersistentData}

AdvanceInit ==
    /\ triples = [i \in Nodes |-> EmptyMap]
    /\ generators = [i \in Nodes |-> EmptyMap]
    /\ mine = [i \in Nodes |-> <<>>]
    /\ panicked = FALSE
    /\ ret = NoRet
    /\ spent = [i \in Nodes |-> {}]
    /\ nGen = 0
    /\ nTake = 0
    /\ state \in AdvanceStates
    /\ channel = <<>>
    /\ queue = <<>>
    /\ outbox = <<>>
    /\ storage \in PersistentData
    /\ stopped = FALSE
    /\ receiver = "open"
    /\ tick = NoTick
    /\ lastEpoch = Absent
    /\ lock = Unlocked
    /\ peers = NoPeers

\* state.advance(ctx, contract_state) with the contract state c
DriverAdvance(c) ==
    /\ Alive
    /\ \E adv \in advance(state, c, storage) :
          /\ tick' = [NoTick EXCEPT !.path = "advance", !.on = state.tag,
                                    !.res = adv.res, !.observed = c]
          /\ state' = IF adv.res = "Ok" THEN adv.state ELSE state
          /\ SetManager(IF adv.res = "Ok"
                        THEN ManagerOf(adv.state, state, Manager(Me)) ELSE Manager(Me))
    /\ outbox' = <<>>
    /\ UNCHANGED <<panicked, ret, spent, nGen, nTake, channel, queue, storage, stopped, peers, lock,
                   receiver, lastEpoch>>

SpecAdvance == AdvanceInit /\ [][\E c \in ContractStates : DriverAdvance(c)]_vars

-----------------------------------------------------------------------------
(* A quorum generating a key: every node of `participants` is in           *)
(* Generating over the same roster, progress and handle are called on the  *)
(* nodes in any order, and every request a progress call makes reaches the *)
(* queue of the node it is addressed to.  The key generation protocol of   *)
(* the cait-sith library (cait_sith::keygen) is modelled by the contract   *)
(* of the protocol above: commitments to all, shares to each, and an       *)
(* output that is a function of the agreed commitments.                    *)

\* the actions protocol g of node me yields to the pokes of one progress
\* call, after those of `script`, and the protocol after them
RECURSIVE Yields(_, _, _)
RECURSIVE Yielded(_, _, _)
Yields(g, me, script) == Yielded(me, script, ProtocolPoke(g, me))

Yielded(me, script, r) ==
    IF r.action.type \in {"SendMany", "SendPrivate"}
    THEN Yields(r.next, me, Append(script, r.action))
    ELSE IF r.action.type = "Return"
    THEN [script |-> Append(script,
                            [type |-> "Return",
                             output |-> [private_share |-> r.action.output.share,
                                         public_key |-> r.action.output.public.big_c]]),
          g |-> r.next]
    ELSE [script |-> Append(script, r.action), g |-> r.next]

\* the quorum ps after the requests from the k-th on have reached the queues
\* of their recipients
RECURSIVE Posted(_, _, _)
Posted(ps, requests, k) ==
    IF k > Len(requests) THEN ps
    ELSE Posted([ps EXCEPT ![requests[k].to].queue = Append(@, requests[k].msg)],
                requests, k + 1)

\* protocol g of node me after message(from, data) for the messages of q
\* routed to state st, from the k-th on
RECURSIVE Fed(_, _, _, _, _)
Fed(st, g, me, q, k) ==
    IF k > Len(q) THEN g
    ELSE Fed(st, IF Routed(st, q[k]) THEN ProtocolMessage(g, me, q[k].from, q[k].data) ELSE g,
             me, q, k + 1)

KeygenInit ==
    /\ triples = [i \in Nodes |-> EmptyMap]
    /\ generators = [i \in Nodes |-> EmptyMap]
    /\ mine = [i \in Nodes |-> <<>>]
    /\ panicked = FALSE
    /\ ret = NoRet
    /\ spent = [i \in Nodes |-> {}]
    /\ nGen = 0
    /\ nTake = 0
    /\ state = Starting
    /\ channel = <<>>
    /\ queue = <<>>
    /\ outbox = <<>>
    /\ storage = None
    /\ stopped = FALSE
    /\ receiver = "open"
    /\ tick = NoTick
    /\ lastEpoch = Absent
    /\ lock = Unlocked
    /\ \E cs \in [Nodes -> Entropy] :
          peers = [i \in Nodes |->
                      [state |-> GeneratingState(Nodes, NumNodes),
                       protocol |-> NewProtocol(cs[i]),
                       queue |-> <<>>,
                       requests |-> <<>>]]

\* state.progress(ctx) on node i
PeerProgress(i) ==
    /\ peers[i].state.tag = "Generating"
    /\ LET y == Yields(peers[i].protocol, i, <<>>)
           ends == GeneratingLoop(peers[i].state, i, TRUE, y.script, 1)
       IN  peers' = Posted([peers EXCEPT
                               ![i].protocol = y.g,
                               ![i].state = IF ends.res = "Ok" THEN ends.state ELSE @,
                               ![i].requests = ends.requests],
                           ends.requests, 1)
    /\ UNCHANGED <<tmVars, state, channel, queue, outbox, storage, stopped, receiver, tick,
                   lastEpoch, lock>>

\* state.handle(ctx, queue) on node i
PeerHandle(i) ==
    /\ \E k \in 1 .. Len(peers[i].queue) : Routed(peers[i].state, peers[i].queue[k])
    /\ peers' = [peers EXCEPT
                    ![i].protocol = Fed(peers[i].state, @, i, peers[i].queue, 1),
                    ![i].queue = SelectSeq(@, LAMBDA m : ~Routed(peers[i].state, m))]
    /\ UNCHANGED <<tmVars, state, channel, queue, outbox, storage, stopped, receiver, tick,
                   lastEpoch, lock>>

\* every node keeps being driven
SpecKeygen ==
    /\ KeygenInit
    /\ [][\E i \in Nodes : PeerProgress(i) \/ PeerHandle(i)]_vars
    /\ \A i \in Nodes : WF_vars(PeerProgress(i)) /\ WF_vars(PeerHandle(i))

-----------------------------------------------------------------------------
(* The lock of the node's state.  MpcSignProtocol.state is an              *)
(* Arc<RwLock<NodeState>>: run() takes a read guard to clone the state and  *)
(* a write guard to store the result of the turn, get_my_participant takes *)
(* a read guard whenever progress or handle calls ctx.me(), and the other  *)
(* holders of the Arc (the web handlers) read the state at any time.  The  *)
(* lock queues its waiters: a reader that comes while the writer waits     *)
(* stays behind it.                                                        *)

\* the read guards the other tasks hold at most
MaxReaders == 2

\* state.read().await is granted: no write guard is held
CanRead(l) == "write" \notin l.held

\* state.write().await is granted: no guard is held at all
CanWrite(l) == l.held = {} /\ l.readers = 0

\* where run() goes from a point at which it takes or drops no guard: the
\* fetch fails (sleep, continue) or succeeds, the channel is drained, and
\* progress, advance and handle return Ok or an error (continue)
Jumps(pc) ==
    IF pc = "fetch" THEN {"drain", "sleep"}
    ELSE IF pc = "drain" THEN {"read"}
    ELSE IF pc = "progress" THEN {"advance", "fetch"}
    ELSE IF pc = "advance" THEN {"handle", "fetch"}
    ELSE IF pc = "handle" THEN {"write", "fetch"}
    ELSE IF pc = "sleep" THEN {"fetch"}
    ELSE {}

\* the guard an `.await` on the lock gives at point pc, and the point after it
Acquired(l) ==
    IF l.pc = "read" THEN [l EXCEPT !.pc = "clone", !.held = @ \cup {"read"}]
    ELSE IF l.pc = "write" THEN [l EXCEPT !.pc = "assign", !.held = @ \cup {"write"}]
    ELSE [l EXCEPT !.pc = "me_held", !.held = @ \cup {"me"}]

\* a loop whose guards live to the end of the loop body
ReleasedAtEnd(l) ==
    IF l.pc = "clone" THEN [l EXCEPT !.pc = "progress"]
    ELSE IF l.pc = "assign" THEN [l EXCEPT !.pc = "sleep", !.held = {}]
    ELSE [l EXCEPT !.pc = l.back, !.back = "", !.held = @ \ {"me"}]

\* the guard dropped at point pc: the read guard at the end of the block that
\* clones the state, the write guard by drop(guard) after the assignment, the
\* guard of get_my_participant when it returns
Released(l) ==
    IF l.pc = "clone" THEN [l EXCEPT !.pc = "progress", !.held = @ \ {"read"}]
    ELSE IF l.pc = "assign" THEN [l EXCEPT !.pc = "sleep", !.held = @ \ {"write"}]
    ELSE [l EXCEPT !.pc = l.back, !.back = "", !.held = @ \ {"me"}]

\* whether progress and handle on state st can call ctx.me()
CallsMe(st) == st.tag \in {"Generating", "Resharing", "Running"}

\* nothing but the lock changes
LockOnly ==
    UNCHANGED <<tmVars, state, channel, queue, outbox, storage, stopped, receiver, tick,
                lastEpoch, peers>>

\* run() moves on without touching the lock
LoopAwait ==
    /\ \E pc \in Jumps(lock.pc) : lock' = [lock EXCEPT !.pc = pc]
    /\ LockOnly

\* run() or get_my_participant is given the guard it waits for
LoopAcquire ==
    /\ \/ lock.pc \in {"read", "me"} /\ CanRead(lock)
       \/ lock.pc = "write" /\ CanWrite(lock)
    /\ lock' = Acquired(lock)
    /\ LockOnly

\* run() or get_my_participant drops its guard
LoopRelease ==
    /\ lock.pc \in {"clone", "assign", "me_held"}
    /\ lock' = Released(lock)
    /\ LockOnly

\* progress or handle calls ctx.me()
LoopCallsMe ==
    /\ lock.pc \in {"progress", "handle"}
    /\ CallsMe(state)
    /\ lock' = [lock EXCEPT !.pc = "me", !.back = lock.pc]
    /\ LockOnly

\* another task reads the state: it is given a read guard unless a write
\* guard is held or run() waits for one
WebRead ==
    /\ lock.readers < MaxReaders
    /\ CanRead(lock)
    /\ lock.pc # "write"
    /\ lock' = [lock EXCEPT !.readers = @ + 1]
    /\ LockOnly

\* another task drops its read guard
WebDone ==
    /\ lock.readers > 0
    /\ lock' = [lock EXCEPT !.readers = @ - 1]
    /\ LockOnly

LockNext ==
    \/ LoopAwait
    \/ LoopAcquire
    \/ LoopRelease
    \/ LoopCallsMe
    \/ WebRead
    \/ WebDone

SpecLock == DriverInit /\ [][LockNext]_vars

-----------------------------------------------------------------------------
(* C1..C3: take_two *)

\* C1 (triple non-reuse): a take_two or take_two_mine call that succeeds never
\* returns a triple whose id an earlier successful take_two* on this manager
\* already returned, whatever calls were made in between.
C1_TripleNonReuse ==
    [][(nTake' = nTake + 1 /\ ret'.res = "Ok")
          => \A k \in 1 .. 2 : ret'.val[k].id \notin spent[ret'.node]]_vars

\* C2 (all-or-nothing): a take_two(id0, id1) call with id0 or id1 not a key of
\* `triples` leaves triples, mine and generators (hence len()) unchanged and
\* returns Err with id0 when id0 is absent and with id1 otherwise; and the call
\* repeated right after a successful take_two(id0, id1) returns Err(id0).
C2_TakeTwoAllOrNothing ==
    [][ret'.op = "take_two" =>
          LET i == ret'.node
              id0 == ret'.args[1]
              id1 == ret'.args[2]
          IN  /\ (id0 \notin DOMAIN triples[i] \/ id1 \notin DOMAIN triples[i]) =>
                    /\ triples' = triples
                    /\ mine' = mine
                    /\ generators' = generators
                    /\ Cardinality(DOMAIN triples'[i]) = Cardinality(DOMAIN triples[i])
                    /\ ret'.res = "Err"
                    /\ ret'.err = IF id0 \notin DOMAIN triples[i] THEN id0 ELSE id1
              /\ (ret.op = "take_two" /\ ret.res = "Ok" /\ ret.node = i /\ ret.args = ret'.args) =>
                    /\ ret'.res = "Err"
                    /\ ret'.err = id0]_vars

\* a take_two(id0, id1) that found id0 and missed id1 has returned
C2_Witness ==
    /\ ret.op = "take_two"
    /\ ret.res = "Err"
    /\ ret.args[1] \in DOMAIN triples[ret.node]
    /\ ret.err = ret.args[2]
    /\ ret.args[2] \in spent[ret.node]

\* C3: a take_two(id0, id1) that succeeds returns the triples stored under id0
\* and id1, leaves neither id a key of `triples`, lowers len() by exactly 2 and
\* leaves every other entry of `triples` as it was.
C3_TakeTwoSuccess ==
    [][(ret'.op = "take_two" /\ ret'.res = "Ok") =>
          LET i == ret'.node
              id0 == ret'.args[1]
              id1 == ret'.args[2]
          IN  /\ ret'.val = <<triples[i][id0], triples[i][id1]>>
              /\ id0 \notin DOMAIN triples'[i]
              /\ id1 \notin DOMAIN triples'[i]
              /\ Cardinality(DOMAIN triples'[i]) = Cardinality(DOMAIN triples[i]) - 2
              /\ \A k \in DOMAIN triples[i] \ {id0, id1} :
                    k \in DOMAIN triples'[i] /\ triples'[i][k] = triples[i][k]]_vars

\* a take_two has succeeded on a manager that held a third triple
C3_Witness ==
    /\ ret.op = "take_two"
    /\ ret.res = "Ok"
    /\ DOMAIN triples[ret.node] # {}

-----------------------------------------------------------------------------
(* C4..C6: the quorum *)

\* the ids in the `mine` queue of node i
Owned(i) == {mine[i][k] : k \in 1 .. Len(mine[i])}

RECURSIVE SumMyLen(_)
SumMyLen(k) == IF k = 0 THEN 0 ELSE my_len(Manager(participants[k])) + SumMyLen(k - 1)

\* every node of the quorum has completed the same triples and none was taken
SameCompleted ==
    /\ nTake = 0
    /\ \A i, j \in Nodes : DOMAIN triples[i] = DOMAIN triples[j]

\* C4 (exactly one owner): when every node has completed the same set of
\* triples and nothing has been taken, each completed id is in the `mine`
\* queue of exactly one node and the my_len() of the quorum add up to the
\* number of completed triples.
C4_ExactlyOneOwner ==
    SameCompleted =>
        /\ \A id \in DOMAIN triples[Me] :
              Cardinality({i \in Nodes : id \in Owned(i)}) = 1
        /\ SumMyLen(NumNodes) = Cardinality(DOMAIN triples[Me])

\* two triples are complete on every node, nothing is in flight, and each
\* node owns one of them
C4_Witness ==
    /\ SameCompleted
    /\ Cardinality(DOMAIN triples[Me]) = 2
    /\ \A i \in Nodes : generators[i] = EmptyMap /\ my_len(Manager(i)) = 1

\* C5: two nodes that hold a completed triple under the same id k hold the
\* same id field and the same public part (big_a, big_b, big_c).
C5_SamePublic ==
    \A i, j \in Nodes : \A k \in (DOMAIN triples[i]) \cap (DOMAIN triples[j]) :
        /\ triples[i][k].id = triples[j][k].id
        /\ triples[i][k].public = triples[j][k].public

\* two nodes hold a triple under the same id after one of them took and
\* completed that id again
C5_Witness ==
    \E i, j \in Nodes : \E k \in (DOMAIN triples[i]) \cap (DOMAIN triples[j]) :
        i # j /\ k \in spent[i]

\* the quorum as a round of poke_until_quiet in which no node emitted a
\* message leaves it: a poke of any node returns no message and changes nothing
Quiet ==
    \A i \in Nodes : \A ord \in Orders(DOMAIN generators[i]) :
        LET r == poke(Manager(i), i, ord)
        IN  r.res = "Ok" /\ r.messages = <<>> /\ r.tm = Manager(i)

\* C6 (stockpile completes): with nGen generate() calls made across the quorum
\* and every message delivered, once a round of pokes over every node has
\* yielded no message, `generators` is empty on every node and every node holds nGen triples.
C6_StockpileCompletes ==
    (nTake = 0 /\ Quiet) =>
        \A i \in Nodes : generators[i] = EmptyMap /\ len(Manager(i)) = nGen

-----------------------------------------------------------------------------
(* C7..C10: progress and the epoch *)

\* C7 (self never sends): no request a progress call makes, in Generating,
\* Resharing or Running, is addressed to the node itself.
C7_SelfNeverSends ==
    \A j \in 1 .. Len(outbox) : outbox[j].to # Me

\* C8: when the key generation protocol yields Return{private_share,
\* public_key} in a progress call on a Generating state, the call returns
\* WaitingForConsensus with epoch 0, the participants and the threshold of the
\* Generating state, and the private_share and public_key of the Return.
C8_GeneratingReturn ==
    [][(state.tag = "Generating" /\ tick'.path = "progress" /\ tick'.on = "Generating"
          /\ tick'.yielded.type = "Return")
       => /\ tick'.res = "Ok"
          /\ tick'.returned =
                [tag |-> "WaitingForConsensus", epoch |-> 0,
                 participants |-> state.participants, threshold |-> state.threshold,
                 private_share |-> tick'.yielded.output.private_share,
                 public_key |-> tick'.yielded.output.public_key]]_vars

\* a progress call on a Generating state sent a message and then met the Return
C8_Witness ==
    /\ tick.path = "progress"
    /\ tick.on = "Generating"
    /\ tick.yielded.type = "Return"
    /\ state.tag = "WaitingForConsensus"
    /\ Cardinality(state.participants) = Cardinality(AllParticipants)
    /\ outbox # <<>>

\* C9: when the resharing protocol yields Return(private_share) in a progress
\* call on a Resharing state, the call returns WaitingForConsensus with epoch
\* old_epoch + 1, participants new_participants, the threshold and the
\* public_key of the Resharing state, and the private_share of the Return.
C9_ResharingReturn ==
    [][(state.tag = "Resharing" /\ tick'.path = "progress" /\ tick'.on = "Resharing"
          /\ tick'.yielded.type = "Return")
       => /\ tick'.res = "Ok"
          /\ tick'.returned =
                [tag |-> "WaitingForConsensus", epoch |-> state.old_epoch + 1,
                 participants |-> state.new_participants, threshold |-> state.threshold,
                 private_share |-> tick'.yielded.output,
                 public_key |-> state.public_key]]_vars

\* a progress call on a Resharing state of epoch 1 whose roster changes met
\* the Return
C9_Witness ==
    /\ tick.path = "progress"
    /\ tick.on = "Resharing"
    /\ tick.yielded.type = "Return"
    /\ state.tag = "WaitingForConsensus"
    /\ state.epoch = 2
    /\ state.participants # Nodes

\* C11: when the key generation protocol yields SendPrivate(to, m) with `to`
\* not in the participants of the Generating state, the progress call returns
\* the error UnknownParticipant, makes no request to `to`, and the state stays
\* the Generating state it was.
C11_UnknownParticipant ==
    [][(state.tag = "Generating" /\ tick'.path = "progress" /\ tick'.on = "Generating"
          /\ tick'.yielded.type = "SendPrivate"
          /\ tick'.yielded.to \notin state.participants)
       => /\ tick'.res = "Err"
          /\ tick'.err = "UnknownParticipant"
          /\ \A j \in 1 .. Len(outbox') : outbox'[j].to # tick'.yielded.to
          /\ state' = state
          /\ ~panicked']_vars

\* a progress call on a Generating state ended with UnknownParticipant
C11_Witness ==
    /\ tick.path = "progress"
    /\ tick.on = "Generating"
    /\ tick.res = "Err"
    /\ tick.err = "UnknownParticipant"
    /\ tick.yielded.type = "SendPrivate"
    /\ state.tag = "Generating"
    /\ tick.yielded.to \notin state.participants

\* C10: the epoch of the state the node stores (WaitingForConsensus.epoch,
\* Running.epoch, Resharing.old_epoch) is never below the epoch of the state
\* it stored before.
C10_EpochMonotone ==
    [][EpochOf(state') # Absent => EpochOf(state') >= lastEpoch]_vars

\* a node that started without persistent data has stored the state its
\* resharing returned: the epoch it stores went from old_epoch to old_epoch + 1
C10_Witness ==
    /\ storage = None
    /\ tick.path = "written"
    /\ state.tag = "WaitingForConsensus"
    /\ state.epoch > 0
    /\ lastEpoch = state.epoch

\* a message of another epoch than the one the state takes
Stale(st, m) ==
    \/ st.tag = "Running" /\ m.kind = "Triple" /\ m.epoch # st.epoch
    \/ st.tag = "Resharing" /\ m.kind = "Resharing" /\ m.epoch # st.old_epoch

\* C12 (message/epoch match): a Triple message whose epoch is not the epoch of
\* the Running state, and a Resharing message whose epoch is not the old_epoch
\* of the Resharing state, is dropped by handle: it is handed to no protocol,
\* it does not stay in the queue, the triple manager is as it was (no
\* generator joins) and handle sends nothing.
C12_EpochMatch ==
    [][(tick'.path = "handle" /\ \A k \in 1 .. Len(tick'.handled) : Stale(state, tick'.handled[k]))
       => /\ tick'.delivered = <<>>
          /\ queue' = <<>>
          /\ generators' = generators
          /\ triples' = triples
          /\ mine' = mine
          /\ outbox' = <<>>]_vars

\* handle dropped a Triple message of another epoch on a Running state
C12_Witness ==
    /\ tick.path = "handle"
    /\ tick.on = "Running"
    /\ state.tag = "Running"
    /\ Len(tick.handled) = 1
    /\ Stale(state, tick.handled[1])
    /\ tick.delivered = <<>>

\* C16: a failed http send of one message during progress drops only that
\* message, the other recipients and actions of the call are still served and
\* the turn goes on with advance and handle: no progress call ends with a
\* SendError.
C16_SendFailureDropsOneMessage ==
    tick.path = "progress" => tick.err # "SendError"

\* C17: in Resharing, an error of the resharing protocol's poke is returned by
\* progress as the error CaitSithProtocolError, as in Generating: the node
\* does not panic and its state stays the Resharing state it was.
C17_ResharingErrorSurfaced ==
    [][(state.tag = "Resharing" /\ tick'.path = "progress" /\ tick'.on = "Resharing"
          /\ tick'.yielded.type = "Err")
       => /\ tick'.res = "Err"
          /\ tick'.err = "CaitSithProtocolError"
          /\ ~panicked'
          /\ state' = state]_vars

\* C18: when a progress call moves the node to WaitingForConsensus on a
\* protocol Return, PersistentNodeData{epoch, private_share, public_key} of
\* that state is in the secret storage when the call is over.
C18_PersistedOnReturn ==
    [][(tick'.path = "progress" /\ tick'.on \in {"Generating", "Resharing"}
          /\ tick'.yielded.type = "Return" /\ tick'.res = "Ok")
       => storage' = PersistentNodeData(tick'.returned.epoch, tick'.returned.private_share,
                                        tick'.returned.public_key)]_vars

\* C20: get_or_generate(id) has three outcomes.  With id a key of triples it
\* returns None and changes nothing, so the message is dropped and no
\* generator is created.  With id a key of generators it returns Some, the
\* generator it returns is the one that was there (the same protocol
\* instance, at the step it had reached) and no key is added.  Otherwise it
\* returns Some and id is the one key added to generators, bound to a new
\* protocol instance.  triples and mine are never touched.
C20_GetOrGenerate ==
    [][ret'.op = "get_or_generate" =>
          LET id == ret'.args[1] IN
          /\ triples' = triples
          /\ mine' = mine
          /\ id \in DOMAIN triples[Me] =>
                /\ ret'.res = "None"
                /\ generators' = generators
          /\ (id \notin DOMAIN triples[Me] /\ id \in DOMAIN generators[Me]) =>
                /\ ret'.res = "Some"
                /\ DOMAIN generators'[Me] = DOMAIN generators[Me]
                /\ generators'[Me][id].c = generators[Me][id].c
                /\ generators'[Me][id].pc = generators[Me][id].pc
                /\ \A k \in DOMAIN generators[Me] \ {id} :
                      generators'[Me][k] = generators[Me][k]
          /\ (id \notin DOMAIN triples[Me] /\ id \notin DOMAIN generators[Me]) =>
                /\ ret'.res = "Some"
                /\ DOMAIN generators'[Me] = DOMAIN generators[Me] \cup {id}
                /\ generators'[Me][id].pc = 0
                /\ \A k \in DOMAIN generators[Me] : generators'[Me][k] = generators[Me][k]]_vars

\* a message for a completed id was dropped while another protocol was running
C20_Witness ==
    /\ ret.op = "get_or_generate"
    /\ ret.res = "None"
    /\ ret.args[1] \in DOMAIN triples[Me]
    /\ DOMAIN generators[Me] # {}

\* whether progress on a state of this variant makes requests
Idle(st) == st.tag \notin {"Generating", "Resharing", "Running"}

C15_FetchFailureSkipsTurn ==
    [][(tick'.path = "fetch_failed" /\ tick.path # "fetch_failed") =>
          /\ UNCHANGED <<state, channel, queue, storage>>
          /\ UNCHANGED <<triples, generators, mine>>
          /\ outbox' = <<>>
          /\ ~stopped' /\ ~panicked']_vars

C15_Witness ==
    /\ tick.path = "fetch_failed"
    /\ state.tag = "Running"
    /\ channel # <<>>

\* C19 (single-state atomicity): what a reader of the shared NodeState can
\* see (the state and, in Running, the triple manager it points to) changes
\* only when a turn stores its result: it is the state before the turn or the
\* state progress, advance and handle have fully computed, nothing in between.
C19_CommittedOnly ==
    [][(state' # state \/ (state.tag = "Running" /\ Manager(Me)' # Manager(Me))) =>
          (tick'.path = "written" /\ channel' = <<>>)]_vars

\* C21 (consensus error): a turn in which advance returns a ConsensusError
\* stores nothing: the node's stored state after the turn is the stored state
\* before it, whatever progress had returned, and the loop goes on.
C21_ConsensusErrorKeepsState ==
    [][(tick'.path = "advance_err" /\ channel' = <<>>) =>
          /\ state' = state
          /\ lastEpoch' = lastEpoch
          /\ storage' = storage
          /\ ~stopped' /\ ~panicked']_vars

\* advance failed on a threshold or key mismatch of WaitingForConsensus
C21_Witness ==
    /\ tick.path = "advance_err"
    /\ tick.res = "Ok"
    /\ state.tag = "WaitingForConsensus"

\* C22 (guards of advance): advance takes a node from WaitingForConsensus(e')
\* or Running(e') to Resharing only on a contract in Resharing with
\* old_epoch = e', and from WaitingForConsensus(e') to Running only on a
\* contract in Running with epoch = e' and the node's participant set; on
\* every other contract state the node does not make these transitions.
C22_AdvanceGuards ==
    [][tick'.path = "advance" =>
          /\ (state.tag \in {"WaitingForConsensus", "Running"} /\ state'.tag = "Resharing") =>
                /\ tick'.observed.tag = "Resharing"
                /\ tick'.observed.old_epoch = state.epoch
                /\ state'.old_epoch = state.epoch
          /\ (state.tag = "WaitingForConsensus" /\ state'.tag = "Running") =>
                /\ tick'.observed.tag = "Running"
                /\ tick'.observed.epoch = state.epoch
                /\ tick'.observed.participants = state.participants
                /\ state'.epoch = state.epoch]_vars

\* a node at an epoch above 0 has entered Resharing from Running
C22_Witness ==
    /\ tick.path = "advance"
    /\ tick.on = "Running"
    /\ state.tag = "Resharing"
    /\ tick.observed.old_epoch > 0

\* C23 (happy key generation): when every node of the roster is in Generating
\* and no request is lost, every node eventually is in WaitingForConsensus
\* with epoch 0, and all of them hold the same public key.
C23_HappyKeygen ==
    <>[](/\ \A i \in Nodes : /\ peers[i].state.tag = "WaitingForConsensus"
                             /\ peers[i].state.epoch = 0
         /\ \A i, j \in Nodes : peers[i].state.public_key = peers[j].state.public_key)

\* the quorum is done, its nodes having started from different randomness
C23_Witness ==
    /\ peers # NoPeers
    /\ \A i \in Nodes :
          /\ peers[i].state.tag = "WaitingForConsensus"
          /\ peers[i].state.public_key = peers[Me].state.public_key
    /\ \E i, j \in Nodes : peers[i].protocol.c # peers[j].protocol.c

\* the generators of manager i whose protocol returns in the poke() call the
\* step makes on it
Returning(i) ==
    {id \in DOMAIN generators[i] : GenLoop(i, id, generators[i][id], <<>>).end = "Return"}

\* the owner of the triple generator id of manager i returns:
\* participants[hash mod n]
OwnerOf(i, id) ==
    participants[(hash64(GenLoop(i, id, generators[i][id], <<>>).output.public.big_c)
                     % Len(participants)) + 1]

\* what a poke() call on manager i must leave for the generators that return
Stored(i, back) ==
    /\ \A id \in Returning(i) :
          /\ id \notin DOMAIN generators'[i]
          /\ id \in DOMAIN triples'[i]
          /\ triples'[i][id].id = id
          /\ triples'[i][id].public = GenLoop(i, id, generators[i][id], <<>>).output.public
    /\ Len(mine'[i]) = Len(mine[i]) + Cardinality(back)
    /\ SubSeq(mine'[i], 1, Len(mine[i])) = mine[i]
    /\ {mine'[i][k] : k \in (Len(mine[i]) + 1) .. Len(mine'[i])} = back

EndOf(i, id) == GenLoop(i, id, generators[i][id], <<>>).end

\* C25 (retention in poke): after a poke() call a generator that was there
\* before is still there exactly when its last action in the call was Wait;
\* one that returned is gone and its id is in `triples`; one whose poke
\* failed is gone, `triples` holds nothing new under its id and the call
\* returns the error, the generators that wait being kept all the same; the
\* call creates no generator.
C25_RetainedUntilDone ==
    [][ret'.op = "poke" =>
          /\ DOMAIN generators'[Me] \subseteq DOMAIN generators[Me]
          /\ \A id \in DOMAIN generators[Me] :
                /\ id \in DOMAIN generators'[Me] <=> EndOf(Me, id) = "Wait"
                /\ EndOf(Me, id) = "Return" => id \in DOMAIN triples'[Me]
                /\ EndOf(Me, id) = "Err" =>
                      /\ id \in DOMAIN triples'[Me] => /\ id \in DOMAIN triples[Me]
                                                        /\ triples'[Me][id] = triples[Me][id]
                      /\ ret'.res = "Err"
          /\ ret'.res = "Err" => \E id \in DOMAIN generators[Me] : EndOf(Me, id) = "Err"]_vars

\* a poke() call has returned an error and kept a generator that waits
C25_Witness ==
    /\ ret.op = "poke"
    /\ ret.res = "Err"
    /\ generators[Me] # EmptyMap

\* the number of triples a step removes from manager i
Taken(i) == Cardinality(DOMAIN triples[i]) - Cardinality(DOMAIN triples'[i])

\* C26 (take_two_mine): a call with fewer than two ids in `mine` returns None
\* and changes neither `mine` nor `triples`; a call with two or more pops the
\* two ids at the front of `mine`, the rest keeping its order, returns, when
\* it returns triples, the triples stored under these two ids in this order,
\* and removes from `triples` both of them or none: it never panics with one
\* triple removed.
C26_TakeTwoMineFifo ==
    [][ret'.op = "take_two_mine" =>
          /\ Len(mine[Me]) < 2 =>
                /\ ret'.res = "None"
                /\ mine'[Me] = mine[Me]
                /\ triples'[Me] = triples[Me]
          /\ Len(mine[Me]) >= 2 =>
                /\ ret'.args = <<mine[Me][1], mine[Me][2]>>
                /\ mine'[Me] = SubSeq(mine[Me], 3, Len(mine[Me]))
                /\ ret'.res \in {"Ok", "None"}
                /\ ret'.res = "Ok" =>
                      /\ Taken(Me) = 2
                      /\ ret'.val = <<triples[Me][mine[Me][1]], triples[Me][mine[Me][2]]>>
                      /\ DOMAIN triples'[Me] = DOMAIN triples[Me] \ {mine[Me][1], mine[Me][2]}
                /\ ret'.res = "None" => triples'[Me] = triples[Me]]_vars

\* C27 (my_len counts unspent triples): as long as no call has panicked, on
\* every manager every id in `mine` is a key of `triples`, and my_len() is at
\* most len().
C27_MineAreStored ==
    ~panicked => \A i \in Nodes :
        /\ \A k \in 1 .. Len(mine[i]) : mine[i][k] \in DOMAIN triples[i]
        /\ my_len(Manager(i)) <= len(Manager(i))

\* C28 (stocking in Running): a progress call on a Running state whose
\* manager has potential_len() >= 2 pokes the manager as it is, without a
\* generate(); one whose manager has potential_len() < 2 pokes it after one
\* generate(); and a call that succeeds returns the Running state it was
\* called on, which stays the node's state.
C28_GenerateBelowTwo ==
    [][(tick'.path = "progress" /\ tick'.on = "Running") =>
          /\ potential_len(Manager(Me)) >= 2 =>
                \E ord \in Orders(DOMAIN generators[Me]) :
                   Manager(Me)' = poke(Manager(Me), Me, ord).tm
          /\ potential_len(Manager(Me)) < 2 =>
                /\ \E id \in Ids, c \in Entropy :
                      \E ord \in Orders(DOMAIN generators[Me] \cup {id}) :
                         Manager(Me)' = poke(generate(Manager(Me), id, c), Me, ord).tm
                /\ potential_len(Manager(Me))' <= potential_len(Manager(Me)) + 1
          /\ tick'.res = "Ok" => /\ tick'.returned = state
                                 /\ state' = state]_vars

\* a progress call on a Running state has succeeded and left two triples in
\* the making
C28_Witness ==
    /\ tick.path = "progress"
    /\ tick.on = "Running"
    /\ tick.res = "Ok"
    /\ Cardinality(DOMAIN generators[Me]) = 2

\* the Send actions the protocol of generator g yields in one poke() call of
\* the manager, before the action that ends the loop
RECURSIVE Run(_, _)
Run(g, me) ==
    LET r == ProtocolPoke(g, me)
    IN  IF r.action.type \in {"SendMany", "SendPrivate"}
        THEN <<r.action>> \o Run(r.next, me)
        ELSE <<>>

\* the payloads in a sequence of messages or actions
DataOf(q, Get(_)) == {Get(q[k]) : k \in 1 .. Len(q)}

\* how many entries of sequence q satisfy Test
Count(q, Test(_)) == Cardinality({k \in 1 .. Len(q) : Test(q[k])})

\* C29 (messages of poke): the messages a poke() call returns are, for every
\* generator id, every participant p (the node itself included) and every
\* payload, as many messages of generator id to p with this payload as the
\* protocol yielded SendMany actions with it and SendPrivate actions to p
\* with it; each message carries the id of a generator of the manager, the
\* manager's epoch and from = me.
C29_PokeFanOut ==
    [][(ret'.op = "poke" /\ ret'.res = "Ok") =>
          /\ \A k \in 1 .. Len(ret'.val) :
                /\ ret'.val[k].msg.id \in DOMAIN generators[Me]
                /\ ret'.val[k].msg.epoch = epoch
                /\ ret'.val[k].msg.from = Me
          /\ \A id \in DOMAIN generators[Me] :
                \A k \in 1 .. Len(participants) :
                   \A data \in DataOf(ret'.val, LAMBDA m : m.msg.data)
                                  \cup DataOf(Run(generators[Me][id], Me), LAMBDA a : a.data) :
                      Count(ret'.val, LAMBDA m : /\ m.to = participants[k]
                                                /\ m.msg.id = id
                                                /\ m.msg.data = data)
                        = Count(Run(generators[Me][id], Me),
                                LAMBDA a : /\ a.data = data
                                           /\ a.type = "SendPrivate" => a.to = participants[k])]_vars

\* a poke() call has returned a message of a SendMany addressed to the node
\* itself and a message of a SendPrivate
C29_Witness ==
    /\ ret.op = "poke"
    /\ ret.res = "Ok"
    /\ \E k \in 1 .. Len(ret.val) : ret.val[k].to = Me /\ ret.val[k].msg.data.kind = "commit"
    /\ \E k \in 1 .. Len(ret.val) : ret.val[k].to # Me /\ ret.val[k].msg.data.kind = "share"

\* the roster a key generation or resharing state sends to
RosterOf(st) == IF st.tag = "Generating" THEN st.participants ELSE st.new_participants

\* the requests of a progress call on the plain path: in Generating and
\* Resharing, those of the SendMany actions
Plain(requests) == SelectSeq(requests, LAMBDA r : ~r.encrypted)

IsPrefix(q, r) == Len(q) <= Len(r) /\ q = SubSeq(r, 1, Len(q))

\* the payloads the protocol of generator g yields for recipient p in one
\* poke() call, in the order of its actions
Due(g, p) ==
    LET sent == SelectSeq(Run(g, Me), LAMBDA a : a.type = "SendMany" \/ a.to = p)
    IN  [k \in 1 .. Len(sent) |-> sent[k].data]

\* the payloads of triple id a progress call has sent to recipient p, in the
\* order of the requests
SentTo(requests, p, id) ==
    LET sent == SelectSeq(requests, LAMBDA r : r.to = p /\ r.msg.id = id)
    IN  [k \in 1 .. Len(sent) |-> sent[k].msg.data]

\* C31 (order of the triple messages): in a progress call on a Running state,
\* for every recipient and every triple id, the payloads sent are, in this
\* order, the first ones the generator of this id yields for the recipient in
\* the call: all of them, or those before the request that failed.  The
\* generator is the one the manager held, or the one generate() has just
\* created.
C31_OutboundOrder ==
    [][(tick'.path = "progress" /\ tick'.on = "Running") =>
          \A p \in AllParticipants, id \in Ids :
             \/ SentTo(outbox', p, id) = <<>>
             \/ /\ id \in DOMAIN generators[Me]
                /\ IsPrefix(SentTo(outbox', p, id), Due(generators[Me][id], p))
             \/ /\ potential_len(Manager(Me)) < 2
                /\ \E c \in Entropy : IsPrefix(SentTo(outbox', p, id), Due(NewProtocol(c), p))]_vars

\* a progress call on a Running state has sent one recipient two messages of
\* one triple, a commitment and a share
C31_Witness ==
    /\ tick.path = "progress"
    /\ tick.on = "Running"
    /\ \E p \in AllParticipants, id \in Ids :
          /\ Len(SentTo(outbox, p, id)) >= 2
          /\ SentTo(outbox, p, id)[1].kind = "commit"
          /\ SentTo(outbox, p, id)[2].kind = "share"

\* C32 (a failed tick is retried at the next interval): a turn in which
\* progress, advance or handle fails does not panic, and it ends in the
\* inter-tick sleep before the next fetch.
C32_FailedTickSleeps ==
    [][tick'.path \in {"panic", "handle_panic", "progress_err", "advance_err"} =>
          /\ ~panicked'
          /\ tick'.slept]_vars

\* C33 (no guard across the turn): while run() fetches, drains, runs
\* progress, advance or handle, sleeps, or waits for a guard, its task holds
\* no guard of the state's lock; inside get_my_participant it holds that
\* function's read guard alone; and a call of ctx.me() is never kept waiting
\* by a guard of the loop itself.
C33_NoGuardAcrossTurn ==
    /\ lock.pc \in {"fetch", "drain", "read", "progress", "advance", "handle", "write",
                    "sleep", "me"} => lock.held = {}
    /\ lock.pc = "me_held" => lock.held = {"me"}
    /\ lock.pc = "me" => CanRead(lock)

\* handle has called ctx.me(), which holds its read guard while another task
\* reads the state too, in a turn that has gone through progress
C33_Witness ==
    /\ lock.pc = "me_held"
    /\ lock.back = "handle"
    /\ lock.readers > 0

\* C34 (take_two never panics): a take_two(id0, id1) call, whatever the two
\* ids, the same id twice included, returns Ok or Err.
C34_TakeTwoNeverPanics ==
    ret.op = "take_two" => ret.res \in {"Ok", "Err"} /\ ~panicked

\* C35 (ids of generators and of triples are apart): after every step no id
\* is a key of both `generators` and `triples` of a manager, and every
\* generate() call raises potential_len() by one: it neither replaces a
\* generator nor starts one under the id of a stored triple.
C35_GeneratorsApartFromTriples ==
    [][/\ \A i \in Nodes : DOMAIN generators'[i] \cap DOMAIN triples'[i] = {}
       /\ ret'.op = "none" =>
             potential_len(Manager(Me))' = potential_len(Manager(Me)) + 1]_vars

\* C36 (messages lost to a failed poke): a poke() call that returns Err
\* returns no message, while every generator whose loop ended in Wait in that
\* call is kept in the state it advanced to, and the triple of every
\* generator that returned in that call is in `triples`.
C36_ErrDropsMessages ==
    [][(ret'.op = "poke" /\ ret'.res = "Err") =>
          /\ ret'.val = <<>>
          /\ \A id \in DOMAIN generators[Me] :
                /\ EndOf(Me, id) = "Wait" =>
                      /\ id \in DOMAIN generators'[Me]
                      /\ generators'[Me][id] = GenLoop(Me, id, generators[Me][id], <<>>).g
                /\ EndOf(Me, id) = "Return" => id \in DOMAIN triples'[Me]]_vars

\* a poke() call has returned an error and no message, and the manager keeps
\* a generator that has sent its commitment and waits for those of its peers
C36_Witness ==
    /\ ret.op = "poke"
    /\ ret.res = "Err"
    /\ ret.val = <<>>
    /\ \E id \in DOMAIN generators[Me] : generators[Me][id].pc = 1

C38_ResultCommitted ==
    [][(tick'.path = "advance_err" /\ state.tag \in {"Generating", "Resharing"}
          /\ tick'.returned.tag = "WaitingForConsensus")
       => state' = tick'.returned]_vars

\* C14 (clean shutdown): once the sender of the inbound channel is dropped,
\* the control loop eventually returns Ok(()), and it does not panic.
C14_CleanShutdown ==
    (receiver # "open") ~> (stopped /\ ~panicked)

====
